---- MODULE Spec2Model ----
(***************************************************************************)
(* Model of the streaming conversation core of vocode-python:              *)
(* StreamingConversation (streaming_conversation.py) with its three        *)
(* workers, the interruption broker and the is_interrupt policy.           *)
(*                                                                         *)
(* Strings are sequences of one-character strings, so that lower, strip,   *)
(* split and the substring test are computed as Python computes them.      *)
(* Confidences are small naturals (a fixed-point scale of the float).      *)
(***************************************************************************)
EXTENDS Integers, Sequences, FiniteSets, TLC

VARIABLES
    config,     \* transcriber and agent configuration, fixed at construction
    flags,      \* the conversation's flags (StreamingConversation.__init__)
    queues,     \* the interruption registry and the queues between the workers
    events,     \* every InterruptibleEvent created so far, by creation order
    trackers,   \* trackers[i]: number of set() calls on the tracker made with event i
    workers,    \* the in-flight item and suspension point of each task
    audio,      \* RandomAudioManager: the audio category playing, and its tracker
    transcript, \* Transcript: the messages appended so far
    log,        \* history: what the last handler calls did
    policy,     \* input and result of one is_interrupt call (SpecPolicy)
    clock,      \* time.time() and conversation.last_action_timestamp
    speech,     \* one send_speech_to_output call and its caller's turn (SpecEmitter)
    lifecycle,  \* start and the terminate calls, step by step (SpecLifecycle)
    deepgram    \* DeepgramTranscriber: its run loop and one connection (SpecDeepgram)

vars == <<config, flags, queues, events, trackers, workers, audio, transcript, log,
          policy, clock, speech, lifecycle, deepgram>>

-----------------------------------------------------------------------------
(* Bounds *)

MaxEvents == 4          \* events created in one behaviour
MaxTranscriptions == 2  \* transcriptions handed to TranscriptionsWorker
MaxChunks == 1          \* chunks of one synthesis result
MaxConfidence == 2      \* is_interrupt is tried on confidences 0..MaxConfidence
MaxLen == 4             \* is_interrupt is tried on messages of up to MaxLen characters
MaxThreshold == 2       \* is_interrupt is tried on word thresholds 0..MaxThreshold
MaxSpeechChunks == 2    \* chunks of the synthesis result send_speech_to_output is tried on
MaxTime == 4            \* the clock runs from 0 to MaxTime
MaxCalls == 2           \* terminate calls in one behaviour
MaxTurnEvents == 5      \* events in one behaviour of a later turn

-----------------------------------------------------------------------------
(* Strings *)

Space == " "

\* str.lower() on the characters the model draws
LowerChar(c) == IF c = "U" THEN "u" ELSE IF c = "X" THEN "x" ELSE c

lower(msg) == [i \in 1..Len(msg) |-> LowerChar(msg[i])]

RECURSIVE lstrip(_)
lstrip(msg) ==
    IF msg = <<>> THEN <<>>
    ELSE IF Head(msg) = Space THEN lstrip(Tail(msg))
    ELSE msg

RECURSIVE rstrip(_)
rstrip(msg) ==
    IF msg = <<>> THEN <<>>
    ELSE IF msg[Len(msg)] = Space THEN rstrip(SubSeq(msg, 1, Len(msg) - 1))
    ELSE msg

\* str.strip()
strip(msg) == rstrip(lstrip(msg))

\* str.split(): the maximal runs of non-whitespace characters
RECURSIVE SplitFrom(_, _, _)
SplitFrom(msg, word, words) ==
    IF msg = <<>>
    THEN IF word = <<>> THEN words ELSE Append(words, word)
    ELSE IF Head(msg) = Space
         THEN SplitFrom(Tail(msg), <<>>,
                        IF word = <<>> THEN words ELSE Append(words, word))
         ELSE SplitFrom(Tail(msg), Append(word, Head(msg)), words)

split(msg) == SplitFrom(msg, <<>>, <<>>)

\* Python's `cue in message` on strings: cue is a contiguous substring
contains(cue, msg) ==
    \E i \in 0..(Len(msg) - Len(cue)) : SubSeq(msg, i + 1, i + Len(cue)) = cue

\* the reserved transcript value of base_transcriber, one opaque token here
HUMAN_ACTIVITY_DETECTED == <<"HUMAN_ACTIVITY_DETECTED">>

verbal_cues ==
    { <<"u","h">>, <<"u","m">>, <<"m","h","m">>,
      <<"y","e","s">>, <<"y","e","a","h">>, <<"o","k","a","y">>,
      <<"i"," ","s","e","e">>,
      <<"i"," ","u","n","d","e","r","s","t","a","n","d">>,
      <<"g","o"," ","o","n">>, <<"g","o"," ","a","h","e","a","d">> }

\* Python's `x or 0` on a number
OrZero(x) == IF x = 0 THEN 0 ELSE x

-----------------------------------------------------------------------------
(* StreamingConversation.is_interrupt *)

is_interrupt_ignores_confidence(transcription, cfg) ==
    LET message == strip(lower(transcription.message))
        words == split(message)
    IN  IF transcription.message = HUMAN_ACTIVITY_DETECTED THEN TRUE
        ELSE IF Len(words) = 0 \/ Len(words) = 1 THEN FALSE
        ELSE IF (\E cue \in verbal_cues : contains(cue, message))
                /\ Len(words) <= cfg.interruption_word_threshold THEN FALSE
        ELSE TRUE

is_interrupt_ignores_threshold(transcription, cfg) ==
    LET message == strip(lower(transcription.message))
        words == split(message)
    IN  IF transcription.message = HUMAN_ACTIVITY_DETECTED THEN TRUE
        ELSE IF transcription.confidence < OrZero(cfg.min_interrupt_confidence) THEN FALSE
        ELSE IF Len(words) = 0 \/ Len(words) = 1 THEN FALSE
        ELSE IF \E cue \in verbal_cues : contains(cue, message) THEN FALSE
        ELSE TRUE

is_interrupt(transcription, cfg) ==
    LET detected_human_voice == transcription.message = HUMAN_ACTIVITY_DETECTED
    IN  IF detected_human_voice THEN TRUE
        ELSE IF transcription.confidence >= OrZero(cfg.min_interrupt_confidence)
        THEN LET message == strip(lower(transcription.message))
                 words == split(message)
                 interruption_threshold == cfg.interruption_word_threshold
             IN  IF Len(words) = 0 \/ Len(words) = 1 THEN FALSE
                 ELSE IF (\E cue \in verbal_cues : contains(cue, message))
                         /\ Len(words) <= interruption_threshold THEN FALSE
                 ELSE IF Len(words) > interruption_threshold THEN TRUE
                 ELSE TRUE
        ELSE FALSE

-----------------------------------------------------------------------------
(* Values *)

Confidences == 0..MaxConfidence

NoTranscription ==
    [seq |-> 0, message |-> <<>>, confidence |-> 0,
     is_final |-> FALSE, is_interrupt |-> FALSE]

\* payloads: TranscriptionAgentInput, the AgentResponse variants, and the
\* (message, synthesis_result) pair, whose chunk stream has `chunks` chunks
Payload(type, t, chunks) == [type |-> type, transcription |-> t, chunks |-> chunks]

AgentResponse(type) == Payload(type, NoTranscription, 0)

\* utterances the transcriber delivers in the pipeline specification:
\* one word, and two words without a verbal cue
PipelineMessages == { <<"u","h">>, <<"x",Space,"x">> }

\* the whole program state as one value, so that a handler is a function
\* from the state before it to the state after it
State ==
    [config |-> config, flags |-> flags, queues |-> queues, events |-> events,
     trackers |-> trackers, workers |-> workers, audio |-> audio,
     transcript |-> transcript, log |-> log, clock |-> clock]

\* the conversation goes to state s
SetState(s) ==
    /\ clock' = s.clock
    /\ config' = s.config
    /\ flags' = s.flags
    /\ queues' = s.queues
    /\ events' = s.events
    /\ trackers' = s.trackers
    /\ workers' = s.workers
    /\ audio' = s.audio
    /\ transcript' = s.transcript
    /\ log' = s.log

Set(s) == SetState(s) /\ UNCHANGED <<policy, speech, lifecycle, deepgram>>

\* mark_last_action_timestamp: last_action_timestamp = time.time()
mark_last_action_timestamp(s) == [s EXCEPT !.clock.last_action_timestamp = s.clock.now]

-----------------------------------------------------------------------------
(* InterruptibleEvent and the QueueingInterruptibleEventFactory *)

\* InterruptibleEvent.is_interrupted
is_interrupted(e) == e.interrupted

\* InterruptibleEvent.interrupt succeeds on an interruptible event that is
\* neither interrupted nor done
can_interrupt(e) == e.is_interruptible /\ ~e.interrupted /\ ~e.done

\* asyncio.Event.set on tracker k (0: the event carries no tracker)
set_tracker(s, k) ==
    IF k = 0 THEN s ELSE [s EXCEPT !.trackers[k] = @ + 1]

create_interruptible_event_off_registry(s, kind, payload, is_interruptible, tracker) ==
    LET id == Len(s.events) + 1
        e == [kind |-> kind, payload |-> payload,
              is_interruptible |-> is_interruptible,
              interrupted |-> FALSE, done |-> FALSE,
              tracker |-> IF kind = "agent_input" THEN 0
                          ELSE IF tracker = 0 THEN id ELSE tracker]
    IN  [s EXCEPT !.events = Append(@, e),
                  !.trackers = Append(@, 0),
                  !.queues.interruptible_events =
                      IF kind = "agent_input" THEN @ ELSE Append(@, id)]

\* create_interruptible_event / create_interruptible_agent_response_event:
\* build the event and put it on conversation.interruptible_events.
\* tracker = 0 asks for a fresh asyncio.Event, named by the new event's index.
create_interruptible_event(s, kind, payload, is_interruptible, tracker) ==
    LET id == Len(s.events) + 1
        e == [kind |-> kind, payload |-> payload,
              is_interruptible |-> is_interruptible,
              interrupted |-> FALSE, done |-> FALSE,
              tracker |-> IF kind = "agent_input" THEN 0
                          ELSE IF tracker = 0 THEN id ELSE tracker]
    IN  [s EXCEPT !.events = Append(@, e),
                  !.trackers = Append(@, 0),
                  !.queues.interruptible_events = Append(@, id)]

\* the event the factory made last
last_event(s) == Len(s.events)

\* agent.produce_interruptible_agent_response_event_nonblocking
agent_produce(s, type) ==
    LET s1 == create_interruptible_event(s, "agent_response", AgentResponse(type), TRUE, 0)
    IN  [s1 EXCEPT !.queues.agent_output = Append(@, last_event(s1))]

-----------------------------------------------------------------------------
(* RandomAudioManager *)

\* the running audio task ends (played out or cancelled): its tracker is set
end_audio(s) ==
    IF s.audio.playing = "none" THEN s
    ELSE [set_tracker(s, s.audio.tracker) EXCEPT
              !.audio = [playing |-> "none", tracker |-> 0]]

stop_all_audios(s) == end_audio(s)

sync_stop_follow_up_audio(s) ==
    IF s.audio.playing = "follow_up" THEN end_audio(s) ELSE s

\* sync_send_filler_audio / sync_send_follow_up_audio / sync_send_backtrack_audio:
\* starting a category first cancels the running audio
send_audio(s, category, tracker) ==
    [end_audio(s) EXCEPT !.audio = [playing |-> category, tracker |-> tracker]]

-----------------------------------------------------------------------------
(* StreamingConversation.broadcast_interrupt *)

\* StreamingConversation.clear_queue: get_nowait until the queue is empty
RECURSIVE clear_queue(_)
clear_queue(q) == IF q = <<>> THEN q ELSE clear_queue(Tail(q))

\* the drain loop over conversation.interruptible_events
RECURSIVE drain_registry(_, _, _)
drain_registry(registry, evs, num_interrupts) ==
    IF registry = <<>>
    THEN [events |-> evs, num_interrupts |-> num_interrupts]
    ELSE LET id == Head(registry)
         IN  IF ~is_interrupted(evs[id]) /\ can_interrupt(evs[id])
             THEN drain_registry(Tail(registry),
                                 [evs EXCEPT ![id].interrupted = TRUE],
                                 num_interrupts + 1)
             ELSE drain_registry(Tail(registry), evs, num_interrupts)

\* InterruptibleWorker.cancel_current_task on the agent: the generation task
\* is cancelled and the item it was working on is finished with
agent_cancel_current_task(s) ==
    IF s.workers.agent = 0 THEN s
    ELSE [s EXCEPT !.events[s.workers.agent].done = TRUE,
                   !.workers.agent = 0]

\* InterruptibleWorker.cancel_current_task on AgentResponsesWorker: process
\* is cancelled at its await and swallows the CancelledError
arw_cancel_current_task(s) ==
    IF s.workers.arw.current = 0 THEN s
    ELSE [s EXCEPT !.events[s.workers.arw.current].done = TRUE,
                   !.workers.arw = [current |-> 0, stage |-> "idle", waiting_on |-> 0]]

clear_hot_queues_keeps_device_queue(s) ==
    LET s1 == [s EXCEPT !.queues.agent_output = clear_queue(@)]
        s2 == [s1 EXCEPT !.queues.synthesis_results = clear_queue(@)]
    IN  [s2 EXCEPT !.queues.agent_output = clear_queue(@)]

clear_hot_queues_keeps_synthesis_results(s) ==
    LET s1 == [s EXCEPT !.queues.agent_output = clear_queue(@)]
        s2 == [s1 EXCEPT !.queues.agent_output = clear_queue(@)]
    IN  [s2 EXCEPT !.queues.output_device = clear_queue(@)]

\* lines 675-678: agent.output_queue, agent_responses_worker.output_queue (the
\* synthesis results queue), agent_responses_worker.input_queue (the agent's
\* output queue again, line 479) and output_device.queue
clear_hot_queues(s) ==
    LET s1 == [s EXCEPT !.queues.agent_output = clear_queue(@)]
        s2 == [s1 EXCEPT !.queues.synthesis_results = clear_queue(@)]
        s3 == [s2 EXCEPT !.queues.agent_output = clear_queue(@)]
    IN  [s3 EXCEPT !.queues.output_device = clear_queue(@)]

broadcast_interrupt_clears_is_bot_speaking(s) ==
    LET drained == drain_registry(s.queues.interruptible_events, s.events, 0)
        s1 == [s EXCEPT !.events = drained.events,
                        !.queues.interruptible_events = <<>>]
        s2 == agent_cancel_current_task(s1)
        s3 == arw_cancel_current_task(s2)
        s4 == stop_all_audios(s3)
        s5 == [s4 EXCEPT !.flags.is_synthesizing = FALSE,
                         !.flags.is_bot_speaking = FALSE]
        s9 == clear_hot_queues(s5)
    IN  [s9 EXCEPT
            !.log.broker =
                [calls |-> IF @.calls < 2 THEN @.calls + 1 ELSE @.calls,
                 ret |-> drained.num_interrupts > 0,
                 held |-> [agent_output |-> Len(s.queues.agent_output),
                           synthesis_results |-> Len(s.queues.synthesis_results),
                           output_device |-> Len(s.queues.output_device)],
                 in_flight |-> s.workers.arw.stage = "create_speech",
                 left |-> [agent_output |-> s9.queues.agent_output,
                           synthesis_results |-> s9.queues.synthesis_results,
                           output_device |-> s9.queues.output_device],
                 mark |-> Len(s.events),
                 window |-> TRUE]]

\* log.broker records the call: what the queues held, whether a synthesis was
\* in flight, how many events existed, and what the queues hold at the return
broadcast_interrupt(s) ==
    LET drained == drain_registry(s.queues.interruptible_events, s.events, 0)
        s1 == [s EXCEPT !.events = drained.events,
                        !.queues.interruptible_events = <<>>]
        s2 == agent_cancel_current_task(s1)
        s3 == arw_cancel_current_task(s2)
        s4 == stop_all_audios(s3)
        s5 == [s4 EXCEPT !.flags.is_synthesizing = FALSE]
        s9 == clear_hot_queues(s5)
    IN  [s9 EXCEPT
            !.log.broker =
                [calls |-> IF @.calls < 2 THEN @.calls + 1 ELSE @.calls,
                 ret |-> drained.num_interrupts > 0,
                 held |-> [agent_output |-> Len(s.queues.agent_output),
                           synthesis_results |-> Len(s.queues.synthesis_results),
                           output_device |-> Len(s.queues.output_device)],
                 in_flight |-> s.workers.arw.stage = "create_speech",
                 left |-> [agent_output |-> s9.queues.agent_output,
                           synthesis_results |-> s9.queues.synthesis_results,
                           output_device |-> s9.queues.output_device],
                 mark |-> Len(s.events),
                 window |-> TRUE]]

\* the value broadcast_interrupt returned
broadcast_interrupt_result(s) == s.log.broker.ret

-----------------------------------------------------------------------------
(* TranscriptionsWorker.process *)

\* TranscriptionAgentInput for a transcription, made by the event factory
agent_input_event(s, t) ==
    create_interruptible_event(
        s, "agent_input", Payload("TranscriptionAgentInput", t, 0), TRUE, 0)

\* output_queue.put_nowait(event) for the event just made
put_agent_input(s) ==
    [s EXCEPT !.queues.agent_input = Append(@, last_event(s)),
              !.log.last.forwarded = last_event(s),
              !.log.broker.window = FALSE]

stamp(s, t) == [t EXCEPT !.is_interrupt = s.flags.current_transcription_is_interrupt]

forward_transcription_ignores_is_final(s, t) ==
    LET s1 == [s EXCEPT !.flags.is_human_speaking = ~t.is_final]
    IN  IF t.message = HUMAN_ACTIVITY_DETECTED THEN s1
        ELSE put_agent_input(agent_input_event(s1, stamp(s, t)))

forward_transcription_forwards_sentinel(s, t) ==
    LET s1 == [s EXCEPT !.flags.is_human_speaking = ~t.is_final]
    IN  IF ~t.is_final THEN s1
        ELSE put_agent_input(agent_input_event(s1, stamp(s, t)))

forward_transcription_lifo(s, t) ==
    LET s1 == [s EXCEPT !.flags.is_human_speaking = ~t.is_final]
        s2 == agent_input_event(s1, stamp(s, t))
    IN  IF ~t.is_final THEN s1
        ELSE IF t.message = HUMAN_ACTIVITY_DETECTED THEN s1
        ELSE [s2 EXCEPT !.queues.agent_input = <<last_event(s2)>> \o @,
                        !.log.last.forwarded = last_event(s2),
                        !.log.broker.window = FALSE]

\* lines 192-212: stamp is_interrupt, set is_human_speaking, and forward a
\* final transcription that is not the sentinel to the agent's input queue
forward_transcription(s, t) ==
    LET s1 == [s EXCEPT !.flags.is_human_speaking = ~t.is_final]
    IN  IF ~t.is_final THEN s1
        ELSE IF t.message = HUMAN_ACTIVITY_DETECTED THEN s1
        ELSE put_agent_input(agent_input_event(s1, stamp(s, t)))

\* lines 184-190: the low-confidence filter, then the forwarding
filter_and_forward(s, t, should_check_interrupt) ==
    IF t.confidence < s.config.min_interrupt_confidence /\ should_check_interrupt
    THEN s
    ELSE forward_transcription(s, t)

interrupted_drops_broker_result(s, t) ==
    LET s1 == [broadcast_interrupt(s) EXCEPT
                  !.log.last.fired = TRUE,
                  !.log.last.ret = broadcast_interrupt_result(broadcast_interrupt(s))]
    IN  agent_produce(s1, "BacktrackAudio")

interrupted_enqueues_before_broker(s, t) ==
    LET s1 == broadcast_interrupt(agent_produce(s, "BacktrackAudio"))
    IN  [s1 EXCEPT !.flags.current_transcription_is_interrupt =
                       broadcast_interrupt_result(s1),
                   !.log.last.fired = TRUE,
                   !.log.last.ret = broadcast_interrupt_result(s1)]

\* lines 170-180: the transcription is an interrupt
interrupted(s, t) ==
    LET s1 == broadcast_interrupt(s)
        s2 == [s1 EXCEPT !.flags.current_transcription_is_interrupt =
                             broadcast_interrupt_result(s1),
                         !.log.last.fired = TRUE,
                         !.log.last.ret = broadcast_interrupt_result(s1)]
    IN  agent_produce(s2, "BacktrackAudio")

not_interrupted_forwards(s, t, should_check_interrupt) ==
    filter_and_forward(s, t, should_check_interrupt)

\* lines 181-183: the check ran and the transcription is no interrupt: return
not_interrupted(s, t, should_check_interrupt) == s

begin_process_marks_after_blank_return(s, t) ==
    LET s0 == [s EXCEPT !.flags.current_transcription_is_interrupt = t.is_interrupt,
                        !.log.last = [transcription |-> t, check |-> FALSE,
                                      fired |-> FALSE, ret |-> FALSE,
                                      forwarded |-> 0,
                                      audio |-> s.audio.playing]]
        s1 == sync_stop_follow_up_audio(mark_last_action_timestamp(s0))
    IN  IF strip(t.message) = <<>> THEN s0
        ELSE IF t.is_final THEN [s1 EXCEPT !.flags.human_has_spoken = TRUE]
        ELSE s1

begin_process_keeps_follow_up_audio(s, t) ==
    LET s0 == [mark_last_action_timestamp(s) EXCEPT
                        !.flags.current_transcription_is_interrupt = t.is_interrupt,
                        !.log.last = [transcription |-> t, check |-> FALSE,
                                      fired |-> FALSE, ret |-> FALSE,
                                      forwarded |-> 0,
                                      audio |-> s.audio.playing]]
    IN  IF strip(t.message) = <<>> THEN s0
        ELSE IF t.is_final THEN [s0 EXCEPT !.flags.human_has_spoken = TRUE]
        ELSE s0

\* lines 137-166: up to the decision whether to check for an interrupt
begin_process(s, t) ==
    LET s0 == [mark_last_action_timestamp(s) EXCEPT
                        !.flags.current_transcription_is_interrupt = t.is_interrupt,
                        !.log.last = [transcription |-> t, check |-> FALSE,
                                      fired |-> FALSE, ret |-> FALSE,
                                      forwarded |-> 0,
                                      audio |-> s.audio.playing]]
        s1 == sync_stop_follow_up_audio(s0)
    IN  IF strip(t.message) = <<>> THEN s0
        ELSE IF t.is_final THEN [s1 EXCEPT !.flags.human_has_spoken = TRUE]
        ELSE s1

should_check_interrupt(s) ==
    \/ s.flags.is_bot_speaking
    \/ s.flags.is_synthesizing
    \/ ~s.flags.sent_initial_message

TranscriptionsWorker_process_forwards_before_broker(s, t) ==
    LET s1 == begin_process(s, t)
        check == should_check_interrupt(s1)
        s2 == [s1 EXCEPT !.log.last.check = check]
    IN  IF strip(t.message) = <<>> THEN s1
        ELSE IF check
        THEN IF is_interrupt(t, s2.config)
             THEN LET s3 == filter_and_forward(s2, t, check)
                  IN  [interrupted(s3, t) EXCEPT !.log.broker.window = FALSE]
             ELSE not_interrupted(s2, t, check)
        ELSE filter_and_forward(s2, t, check)

TranscriptionsWorker_process(s, t) ==
    LET s1 == begin_process(s, t)
        check == should_check_interrupt(s1)
        s2 == [s1 EXCEPT !.log.last.check = check]
    IN  IF strip(t.message) = <<>> THEN s1
        ELSE IF check
        THEN IF is_interrupt(t, s2.config)
             THEN filter_and_forward(interrupted(s2, t), t, check)
             ELSE not_interrupted(s2, t, check)
        ELSE filter_and_forward(s2, t, check)

-----------------------------------------------------------------------------
(* StreamingConversation.terminate *)

IdleARW == [current |-> 0, stage |-> "idle", waiting_on |-> 0]

\* asyncio.Task.cancel on the initial-message task: a task that never ran is
\* dropped, a task waiting for its tracker gets CancelledError when it next runs
cancel_initial_message_task(task) ==
    IF task.state = "created" THEN [task EXCEPT !.state = "done"]
    ELSE IF task.state = "waiting" THEN [task EXCEPT !.state = "cancelled"]
    ELSE task

\* lines 817-869 with no events task and no vector db: no await before every
\* worker has been told to terminate, so the teardown is one step.
\* initial_message_task is None when no initial message is configured, and
\* line 824 then raises AttributeError after mark_terminated.
terminate(s) ==
    LET s1 == broadcast_interrupt(s)
        s2 == IF s1.flags.active
              THEN [s1 EXCEPT !.log.transcript_complete =
                                  IF @ < 2 THEN @ + 1 ELSE @]
              ELSE s1
        s3 == [s2 EXCEPT !.flags.active = FALSE]
    IN  IF s3.workers.initial_message_task.state = "none" THEN s3
        ELSE [s3 EXCEPT
                 !.workers.initial_message_task = cancel_initial_message_task(@),
                 !.workers.lifecycle = "terminated",
                 !.workers.agent = 0,
                 !.workers.arw = IdleARW,
                 !.workers.srw.current = 0,
                 !.workers.srw.stage = "idle",
                 !.audio = [playing |-> "none", tracker |-> 0]]

-----------------------------------------------------------------------------
(* AgentResponsesWorker *)

min_human_messages_in_transcript == 2

count_human_messages(tr) == Cardinality({i \in DOMAIN tr : tr[i].sender = "HUMAN"})

\* input_queue_has_agent_response_message
RECURSIVE input_queue_has_agent_response_message(_, _)
input_queue_has_agent_response_message(q, evs) ==
    IF q = <<>> THEN FALSE
    ELSE IF evs[Head(q)].payload.type = "Message" THEN TRUE
    ELSE input_queue_has_agent_response_message(Tail(q), evs)

\* the worker loop after process has returned or raised: the item is finished
arw_item_done(s) ==
    IF s.workers.arw.current = 0 THEN s
    ELSE [s EXCEPT !.events[s.workers.arw.current].done = TRUE,
                   !.workers.arw = IdleARW]

should_send_backtrack_audio_ignores_is_human_speaking(s) ==
    /\ s.flags.human_messages_in_transcript > min_human_messages_in_transcript
    /\ s.flags.bot_has_spoken

\* lines 280-284
should_send_backtrack_audio(s) ==
    /\ s.flags.human_messages_in_transcript > min_human_messages_in_transcript
    /\ s.flags.bot_has_spoken
    /\ s.flags.is_human_speaking

\* lines 280-289, after the wait on the bot's tracker
backtrack_after_wait(s) ==
    IF should_send_backtrack_audio(s) THEN send_audio(s, "backtrack", 0) ELSE s

should_send_filler_audio_while_bot_speaks(s) ==
    /\ s.flags.bot_has_spoken
    /\ s.flags.human_messages_in_transcript > min_human_messages_in_transcript
    /\ s.queues.synthesis_results = <<>>

\* lines 262-267
should_send_filler_audio(s) ==
    /\ s.flags.bot_has_spoken
    /\ s.flags.human_messages_in_transcript > min_human_messages_in_transcript
    /\ ~s.flags.is_bot_speaking
    /\ s.queues.synthesis_results = <<>>

\* process(item) up to its first suspension point, or to its end
AgentResponsesWorker_process(s, id) ==
    LET item == s.events[id]
        type == item.payload.type
        s0 == [s EXCEPT !.workers.arw = [current |-> id, stage |-> "running", waiting_on |-> 0]]
    IN  IF type = "FillerAudio"
        THEN LET s1 == IF ~(s0.flags.human_messages_in_transcript
                               > min_human_messages_in_transcript)
                       THEN [s0 EXCEPT !.flags.human_messages_in_transcript =
                                           count_human_messages(s0.transcript)]
                       ELSE s0
             IN  arw_item_done(IF should_send_filler_audio(s1)
                               THEN send_audio(s1, "filler", item.tracker)
                               ELSE s1)
        ELSE IF type = "FollowUpAudio"
        THEN arw_item_done(send_audio(s0, "follow_up", item.tracker))
        ELSE IF type = "BacktrackAudio"
        THEN LET bot == s0.workers.srw.interruptible_event
             IN  IF bot = 0 THEN arw_item_done(s0)    \* no event yet: the lookup raises
                 ELSE IF s0.trackers[s0.events[bot].tracker] > 0
                 THEN arw_item_done(backtrack_after_wait(s0))
                 ELSE [s0 EXCEPT !.workers.arw.stage = "await_tracker",
                                 !.workers.arw.waiting_on = s0.events[bot].tracker]
        ELSE IF type = "Stop"
        THEN arw_item_done(terminate(set_tracker(s0, item.tracker)))
        ELSE [s0 EXCEPT !.flags.is_synthesizing = TRUE,
                        !.workers.arw.stage = "create_speech"]

AgentResponsesWorker_speech_created_clears_is_synthesizing(s, chunks) ==
    LET item == s.events[s.workers.arw.current]
        s1 == [s EXCEPT !.flags.is_synthesizing = FALSE]
        s2 == create_interruptible_event(
                  s1, "synthesis", Payload("Synthesis", NoTranscription, chunks),
                  item.is_interruptible, item.tracker)
        s3 == [s2 EXCEPT !.queues.synthesis_results = Append(@, last_event(s2))]
    IN  arw_item_done(s3)

\* lines 314-325: create_speech has returned a result of `chunks` chunks
AgentResponsesWorker_speech_created(s, chunks) ==
    LET item == s.events[s.workers.arw.current]
        s1 == [s EXCEPT !.flags.is_synthesizing =
                   input_queue_has_agent_response_message(s.queues.agent_output, s.events)]
        s2 == create_interruptible_event(
                  s1, "synthesis", Payload("Synthesis", NoTranscription, chunks),
                  item.is_interruptible, item.tracker)
        s3 == [s2 EXCEPT !.queues.synthesis_results = Append(@, last_event(s2))]
    IN  arw_item_done(s3)

-----------------------------------------------------------------------------
(* SynthesisResultsWorker *)

after_speech_leaves_tracker(s, cut_off, long_text) ==
    LET id == s.workers.srw.current
        s1 == [s EXCEPT !.flags.is_interrupted = cut_off]
        s2 == [s1 EXCEPT !.flags.is_bot_speaking =
                            s1.queues.synthesis_results # <<>> /\ ~s1.flags.is_interrupted]
        s3 == IF ~s2.flags.bot_has_spoken /\ (~cut_off \/ long_text)
              THEN [s2 EXCEPT !.flags.bot_has_spoken = TRUE] ELSE s2
        s4 == [s3 EXCEPT !.transcript[s.workers.srw.message] =
                             [@ EXCEPT !.text = IF cut_off THEN "cut-" ELSE "full",
                                       !.published = @ + 1]]
        should_send_follow_up ==
            /\ s4.flags.human_has_spoken
            /\ ~s4.flags.is_bot_speaking
            /\ ~s4.flags.is_synthesizing
            /\ s4.config.send_follow_up_audio
        s6 == IF should_send_follow_up THEN agent_produce(s4, "FollowUpAudio") ELSE s4
    IN  [s6 EXCEPT !.events[id].done = TRUE,
                   !.workers.srw.current = 0,
                   !.workers.srw.stage = "idle"]

speech_returned_keeps_bot_speaking(s, cut_off, long_text) ==
    LET id == s.workers.srw.current
        s1 == [s EXCEPT !.flags.is_interrupted = cut_off]
        s3 == IF ~s1.flags.bot_has_spoken /\ (~cut_off \/ long_text)
              THEN [s1 EXCEPT !.flags.bot_has_spoken = TRUE] ELSE s1
        s4 == [s3 EXCEPT !.transcript[s.workers.srw.message] =
                             [@ EXCEPT !.text = IF cut_off THEN "cut-" ELSE "full",
                                       !.published = @ + 1]]
    IN  set_tracker(s4, s4.events[id].tracker)

\* lines 388-408, after send_speech_to_output has returned (message_sent, cut_off, _);
\* long_text: len(message_sent) > 5
speech_returned(s, cut_off, long_text) ==
    LET id == s.workers.srw.current
        s1 == [s EXCEPT !.flags.is_interrupted = cut_off]
        s2 == [s1 EXCEPT !.flags.is_bot_speaking =
                            s1.queues.synthesis_results # <<>> /\ ~s1.flags.is_interrupted]
        s3 == IF ~s2.flags.bot_has_spoken /\ (~cut_off \/ long_text)
              THEN [s2 EXCEPT !.flags.bot_has_spoken = TRUE] ELSE s2
        s4 == [s3 EXCEPT !.transcript[s.workers.srw.message] =
                             [@ EXCEPT !.text = IF cut_off THEN "cut-" ELSE "full",
                                       !.published = @ + 1]]
    IN  set_tracker(s4, s4.events[id].tracker)

\* lines 425-434 and the return of process: the follow-up request
follow_up_step(s) ==
    LET id == s.workers.srw.current
        should_send_follow_up ==
            /\ s.flags.human_has_spoken
            /\ ~s.flags.is_bot_speaking
            /\ ~s.flags.is_synthesizing
            /\ s.config.send_follow_up_audio
        s6 == IF should_send_follow_up THEN agent_produce(s, "FollowUpAudio") ELSE s
    IN  [s6 EXCEPT !.events[id].done = TRUE,
                   !.workers.srw.current = 0,
                   !.workers.srw.stage = "idle"]

\* lines 388-434 up to the wait for the goodbye detector (line 416), or to the
\* end of process when goodbye detection is off
after_speech(s, cut_off, long_text) ==
    LET s5 == speech_returned(s, cut_off, long_text)
    IN  IF s5.config.end_conversation_on_goodbye
        THEN [s5 EXCEPT !.workers.srw.stage = "goodbye"]
        ELSE follow_up_step(s5)

\* lines 361-371: what is left of the delay of the initial message; 0 where
\* the item is not the initial message, the human has spoken, or no delay is
\* configured
initial_message_remaining(s) ==
    IF /\ ~s.flags.sent_initial_message
       /\ ~s.flags.human_has_spoken
       /\ s.config.initial_message_delay_seconds # 0
    THEN s.config.initial_message_delay_seconds
             - (s.clock.now - s.clock.call_start_time)
    ELSE 0

\* lines 376-379, then the call of send_speech_to_output
speech_begins(s) ==
    [s EXCEPT !.flags.is_interrupted = FALSE,
              !.flags.is_bot_speaking = TRUE,
              !.workers.srw.stage = "emit"]

\* lines 347-360: the audio stopped, the empty transcript message attached
item_taken(s, id) ==
    LET s1 == stop_all_audios(s)
        s2 == [s1 EXCEPT !.transcript = Append(@, [sender |-> "BOT", text |-> "", published |-> 0])]
    IN  [s2 EXCEPT !.workers.srw = [current |-> id, interruptible_event |-> id,
                                    stage |-> "delay", chunk_idx |-> 0,
                                    cut_off |-> FALSE, message |-> Len(s2.transcript),
                                    wake |-> 0]]

SynthesisResultsWorker_process_without_delay(s, id) == speech_begins(item_taken(s, id))

\* lines 347-387: process(item) up to the sleep of line 373, or to the first
\* chunk of send_speech_to_output when there is nothing to sleep
SynthesisResultsWorker_process(s, id) ==
    LET s3 == item_taken(s, id)
        remaining_time == initial_message_remaining(s3)
    IN  IF remaining_time > 0
        THEN [s3 EXCEPT !.workers.srw.wake = s3.clock.now + remaining_time]
        ELSE speech_begins(s3)

\* one iteration of the loop of send_speech_to_output (lines 759-806);
\* finish_sentence is the answer of should_finish_sentence
send_chunk(s, finish_sentence, long_text) ==
    LET w == s.workers.srw
        stop_event == s.events[w.current].interrupted
    IN  IF stop_event /\ ~w.cut_off /\ ~finish_sentence
        THEN after_speech(s, TRUE, long_text)
        ELSE [mark_last_action_timestamp(s) EXCEPT
                       !.workers.srw.cut_off = @ \/ stop_event,
                       !.queues.output_device = Append(@, w.chunk_idx),
                       !.workers.srw.chunk_idx = @ + 1,
                       !.transcript[w.message].text = "prefix"]

-----------------------------------------------------------------------------
(* Initial state: the conversation as __init__ leaves it *)

\* The conversation is configured with an initial message, with follow-up
\* audio and without goodbye detection; the confidence scale puts
\* min_interrupt_confidence at 1.
Configs ==
    [min_interrupt_confidence : {1},
     interruption_word_threshold : {2},
     initial_message : {TRUE},
     interrupt_initial_message : BOOLEAN,
     send_follow_up_audio : {TRUE},
     end_conversation_on_goodbye : {FALSE},
     initial_message_delay_seconds : {0}]

\* What reaches TranscriptionsWorker: a blank interim buffer, the sentinel
\* (final from the sender's voice activity detector, interim from the
\* receiver), and interim and final utterances below and at the confidence
\* threshold. Every Transcription is built without is_interrupt, which then
\* has its default.
Transcriptions ==
    {[seq |-> 0, message |-> <<Space>>, confidence |-> 1,
      is_final |-> FALSE, is_interrupt |-> FALSE]}
    \cup [seq : {0}, message : {HUMAN_ACTIVITY_DETECTED}, confidence : {1},
          is_final : BOOLEAN, is_interrupt : {FALSE}]
    \cup [seq : {0}, message : PipelineMessages, confidence : {0, 1},
          is_final : BOOLEAN, is_interrupt : {FALSE}]

NoPolicy == [phase |-> "off", transcription |-> NoTranscription, result |-> FALSE]

NoSpeech == [phase |-> "off"]

NoDeepgram == [run |-> "off"]

NoLifecycle == [start |-> "off"]

InitFlags ==
    [is_human_speaking |-> FALSE, human_has_spoken |-> FALSE,
     human_messages_in_transcript |-> 0,
     is_bot_speaking |-> FALSE, bot_has_spoken |-> FALSE,
     sent_initial_message |-> FALSE, is_interrupted |-> FALSE,
     is_synthesizing |-> FALSE, active |-> FALSE,
     current_transcription_is_interrupt |-> FALSE]

InitLog ==
    [received |-> 0,
     last |-> [transcription |-> NoTranscription, check |-> FALSE,
               fired |-> FALSE, ret |-> FALSE, forwarded |-> 0,
               audio |-> "none"],
     broker |-> [calls |-> 0, ret |-> FALSE,
                 held |-> [agent_output |-> 0, synthesis_results |-> 0,
                           output_device |-> 0],
                 in_flight |-> FALSE,
                 left |-> [agent_output |-> <<>>, synthesis_results |-> <<>>,
                           output_device |-> <<>>],
                 mark |-> 0, window |-> FALSE],
     stale |-> 0,
     transcript_complete |-> 0,
     sent |-> [cut_off |-> FALSE, length |-> 0],
     goodbye |-> "none",
     initial_turn |-> FALSE,
     budget |-> MaxEvents]

ConstructedState(cfg) ==
    [config |-> cfg,
     flags |-> InitFlags,
     queues |-> [interruptible_events |-> <<>>, agent_input |-> <<>>,
                 agent_output |-> <<>>, synthesis_results |-> <<>>,
                 output_device |-> <<>>],
     events |-> <<>>,
     trackers |-> <<>>,
     workers |-> [lifecycle |-> "constructed", agent |-> 0, arw |-> IdleARW,
                  srw |-> [current |-> 0, interruptible_event |-> 0,
                           stage |-> "idle", chunk_idx |-> 0, cut_off |-> FALSE,
                           message |-> 0, wake |-> 0],
                  initial_message_task |-> [state |-> "none", tracker |-> 0]],
     audio |-> [playing |-> "none", tracker |-> 0],
     transcript |-> <<>>,
     log |-> InitLog,
     clock |-> [now |-> 0, last_action_timestamp |-> 0, call_start_time |-> 0]]

\* the conversation is in state s
IsState(s) ==
    /\ config = s.config
    /\ flags = s.flags
    /\ queues = s.queues
    /\ events = s.events
    /\ trackers = s.trackers
    /\ workers = s.workers
    /\ audio = s.audio
    /\ transcript = s.transcript
    /\ log = s.log
    /\ clock = s.clock

Init ==
    /\ \E cfg \in Configs : IsState(ConstructedState(cfg))
    /\ policy = NoPolicy
    /\ speech = NoSpeech
    /\ lifecycle = NoLifecycle
    /\ deepgram = NoDeepgram

-----------------------------------------------------------------------------
(* Actions *)

Running == workers.lifecycle = "started"

\* a handler needs no more events than the bound leaves
Within(s) == Len(s.events) <= s.log.budget

\* start (lines 542-586), the transcriber being ready
start(s) ==
    [s EXCEPT !.clock.call_start_time = s.clock.now,
              !.workers.lifecycle = "started",
              !.workers.initial_message_task.state =
                  IF s.config.initial_message THEN "created" ELSE "none",
              !.flags.active = TRUE]

Start ==
    /\ workers.lifecycle = "constructed"
    /\ Set(start(State))

\* send_initial_message (lines 588-600) up to the wait on its tracker
send_initial_message(s) ==
    IF s.flags.human_has_spoken
    THEN [s EXCEPT !.workers.initial_message_task.state = "done"]
    ELSE LET s1 == create_interruptible_event(
                       s, "agent_response", AgentResponse("Message"),
                       s.config.interrupt_initial_message, 0)
         IN  [s1 EXCEPT !.queues.agent_output = Append(@, last_event(s1)),
                        !.workers.initial_message_task =
                            [state |-> "waiting", tracker |-> last_event(s1)]]

SendInitialMessage ==
    /\ workers.initial_message_task.state = "created"
    /\ Within(send_initial_message(State))
    /\ Set(send_initial_message(State))

\* line 600: the tracker is set, wait() returns True
InitialMessageSent ==
    /\ workers.initial_message_task.state = "waiting"
    /\ trackers[workers.initial_message_task.tracker] > 0
    /\ Set([State EXCEPT !.flags.sent_initial_message = TRUE,
                         !.workers.initial_message_task.state = "done"])

\* lines 601-604: the task is cancelled while waiting
InitialMessageCancelled ==
    /\ workers.initial_message_task.state = "cancelled"
    /\ Set([State EXCEPT !.flags.sent_initial_message = TRUE,
                         !.workers.initial_message_task.state = "done"])

\* the transcriber delivers a transcription and TranscriptionsWorker processes it
TranscriptionsWorkerReceives(delivered) ==
    /\ Running
    /\ log.received < MaxTranscriptions
    /\ \E t \in delivered :
          LET numbered == [t EXCEPT !.seq = log.received + 1]
              s == [State EXCEPT !.log.received = @ + 1]
          IN  /\ Within(TranscriptionsWorker_process(s, numbered))
              /\ Set(TranscriptionsWorker_process(s, numbered))

TranscriptionsWorkerProcess == TranscriptionsWorkerReceives(Transcriptions)

\* the agent takes the next input; an interrupted one is skipped, another one
\* is added to the transcript as a human message and answered
AgentGet ==
    /\ Running
    /\ workers.agent = 0
    /\ queues.agent_input # <<>>
    /\ LET id == Head(queues.agent_input)
           s == [State EXCEPT !.queues.agent_input = Tail(@)]
       IN  IF is_interrupted(events[id]) THEN Set(s)
           ELSE Set([s EXCEPT !.workers.agent = id,
                              !.transcript = Append(@, [sender |-> "HUMAN",
                                                        text |-> "human",
                                                        published |-> 1])])

\* the agent emits a response while generating
AgentRespond ==
    /\ Running
    /\ workers.agent # 0
    /\ \E type \in {"Message", "FillerAudio", "Stop"} :
          /\ Within(agent_produce(State, type))
          /\ Set(agent_produce(State, type))

\* the agent's generation ends
AgentDone ==
    /\ Running
    /\ workers.agent # 0
    /\ Set([State EXCEPT !.events[workers.agent].done = TRUE, !.workers.agent = 0])

\* AgentResponsesWorker takes the next item; an interrupted one is skipped
AgentResponsesWorkerGet ==
    /\ Running
    /\ workers.arw.current = 0
    /\ queues.agent_output # <<>>
    /\ LET id == Head(queues.agent_output)
           s == [State EXCEPT !.queues.agent_output = Tail(@)]
       IN  IF is_interrupted(events[id]) THEN Set(s)
           ELSE /\ Within(AgentResponsesWorker_process(s, id))
                /\ Set(AgentResponsesWorker_process(s, id))

\* create_speech returns
SpeechCreated ==
    /\ Running
    /\ workers.arw.stage = "create_speech"
    /\ \E chunks \in 0..MaxChunks :
          /\ Within(AgentResponsesWorker_speech_created(State, chunks))
          /\ Set(AgentResponsesWorker_speech_created(State, chunks))

\* the tracker the BacktrackAudio item waits for is set
BacktrackResume ==
    /\ Running
    /\ workers.arw.stage = "await_tracker"
    /\ trackers[workers.arw.waiting_on] > 0
    /\ Set(arw_item_done(backtrack_after_wait(State)))

\* SynthesisResultsWorker takes the next item; an interrupted one is skipped
SynthesisResultsWorkerGet ==
    /\ Running
    /\ workers.srw.current = 0
    /\ queues.synthesis_results # <<>>
    /\ LET id == Head(queues.synthesis_results)
           s == [State EXCEPT !.queues.synthesis_results = Tail(@)]
       IN  IF is_interrupted(events[id]) THEN Set(s)
           ELSE Set([SynthesisResultsWorker_process(s, id) EXCEPT
                        !.log.initial_turn =
                            /\ ~s.flags.sent_initial_message
                            /\ ~s.flags.human_has_spoken
                            /\ s.config.initial_message_delay_seconds > 0,
                        !.log.stale =
                            IF s.log.broker.window
                               /\ events[id].tracker <= s.log.broker.mark
                            THEN id ELSE @])

\* the chunk stream yields its next chunk
SendChunk ==
    /\ Running
    /\ workers.srw.stage = "emit"
    /\ workers.srw.chunk_idx < events[workers.srw.current].payload.chunks
    /\ \E finish_sentence, long_text \in BOOLEAN :
          /\ Within(send_chunk(State, finish_sentence, long_text))
          /\ Set(send_chunk(State, finish_sentence, long_text))

\* the chunk stream is exhausted: send_speech_to_output returns
SpeechSent ==
    /\ Running
    /\ workers.srw.stage = "emit"
    /\ workers.srw.chunk_idx = events[workers.srw.current].payload.chunks
    /\ \E long_text \in BOOLEAN :
          /\ Within(after_speech(State, workers.srw.cut_off, long_text))
          /\ Set(after_speech(State, workers.srw.cut_off, long_text))

\* the output device plays the next chunk of its queue
DevicePlay ==
    /\ Running
    /\ queues.output_device # <<>>
    /\ Set([State EXCEPT !.queues.output_device = Tail(@)])

\* the audio of the RandomAudioManager plays out
AudioPlayed ==
    /\ Running
    /\ audio.playing # "none"
    /\ Set(end_audio(State))

\* terminate called from outside the workers (the call adapter, the idle watchdog)
Terminate ==
    /\ workers.lifecycle = "started"
    /\ Set(terminate(State))

Next ==
    \/ Start
    \/ SendInitialMessage
    \/ InitialMessageSent
    \/ InitialMessageCancelled
    \/ TranscriptionsWorkerProcess
    \/ AgentGet
    \/ AgentRespond
    \/ AgentDone
    \/ AgentResponsesWorkerGet
    \/ SpeechCreated
    \/ BacktrackResume
    \/ SynthesisResultsWorkerGet
    \/ SendChunk
    \/ SpeechSent
    \/ DevicePlay
    \/ AudioPlayed
    \/ Terminate

Spec == Init /\ [][Next]_vars

-----------------------------------------------------------------------------
(* The pipeline under fair scheduling. The event loop runs every task that  *)
(* is ready, and a chunk stream yields its next chunk or ends: the steps of *)
(* SynthesisResultsWorker and the resumption of a wait whose tracker is set *)
(* are taken when they stay possible. Follow-up audio is configured off, so *)
(* that no step of SynthesisResultsWorker needs a new event, and nothing    *)
(* then plays on the RandomAudioManager. The transcriber delivers confident *)
(* utterances, and the output device's reading of its queue is left out:    *)
(* no wait of a worker reads that queue.                                    *)

InitLive ==
    /\ \E cfg \in Configs :
          IsState(ConstructedState([cfg EXCEPT !.send_follow_up_audio = FALSE]))
    /\ policy = NoPolicy
    /\ speech = NoSpeech
    /\ lifecycle = NoLifecycle
    /\ deepgram = NoDeepgram

LiveTranscriptions ==
    {t \in Transcriptions : t.confidence = 1 /\ t.message \in PipelineMessages}

UtteranceArrives == TranscriptionsWorkerReceives(LiveTranscriptions)

NextLive ==
    \/ Start
    \/ SendInitialMessage
    \/ InitialMessageSent
    \/ InitialMessageCancelled
    \/ UtteranceArrives
    \/ AgentGet
    \/ AgentRespond
    \/ AgentDone
    \/ AgentResponsesWorkerGet
    \/ SpeechCreated
    \/ BacktrackResume
    \/ SynthesisResultsWorkerGet
    \/ SendChunk
    \/ SpeechSent
    \/ Terminate

Fairness ==
    /\ WF_vars(SendChunk)
    /\ WF_vars(SpeechSent)
    /\ WF_vars(BacktrackResume)

SpecLive == InitLive /\ [][NextLive]_vars /\ Fairness

-----------------------------------------------------------------------------
(* is_interrupt on its own: every short message over a small alphabet and   *)
(* the sentinel, at every confidence and under every threshold pair         *)

PolicyAlphabet == {"u", "h", "U", "x", Space}

PolicyMessages ==
    {HUMAN_ACTIVITY_DETECTED}
    \cup UNION {[1..n -> PolicyAlphabet] : n \in 0..MaxLen}

PolicyConfigs ==
    [min_interrupt_confidence : Confidences,
     interruption_word_threshold : 0..MaxThreshold,
     initial_message : {TRUE},
     interrupt_initial_message : {TRUE},
     send_follow_up_audio : {TRUE}]

InitPolicy ==
    /\ \E cfg \in PolicyConfigs : IsState(ConstructedState(cfg))
    /\ speech = NoSpeech
    /\ lifecycle = NoLifecycle
    /\ deepgram = NoDeepgram
    /\ policy \in [phase : {"called"},
                   transcription : [seq : {0}, message : PolicyMessages,
                                    confidence : Confidences,
                                    is_final : {TRUE}, is_interrupt : {FALSE}],
                   result : {FALSE}]

\* conversation.is_interrupt(transcription) returns
IsInterruptReturns ==
    /\ policy.phase = "called"
    /\ policy' = [policy EXCEPT !.phase = "returned",
                                !.result = is_interrupt(policy.transcription, config)]
    /\ UNCHANGED <<config, flags, queues, events, trackers, workers, audio,
                   transcript, log, clock, speech, lifecycle, deepgram>>

NextPolicy == IsInterruptReturns

SpecPolicy == InitPolicy /\ [][NextPolicy]_vars

-----------------------------------------------------------------------------
(* send_speech_to_output in time, with the turn of SynthesisResultsWorker   *)
(* around it. Time is counted in units of which seconds_per_chunk are one   *)
(* full chunk, so that a chunk of len bytes lasts                           *)
(* seconds_per_chunk * len / chunk_size units. Code between two awaits runs *)
(* at one instant.                                                          *)

seconds_per_chunk == 2

\* chunk_size = seconds_per_chunk * get_chunk_size_per_second(...), one byte per unit
chunk_size == seconds_per_chunk * 1

\* re.search(r"\w", text)
WordCharacters == {"h", "i", "y", "o", "u", "x", "U"}

has_word_character(text) == \E i \in 1..Len(text) : text[i] \in WordCharacters

\* create_ssml: the stripped text inside the markup
create_ssml(text) == <<"<", "p", ">">> \o strip(text) \o <<"<", "/", "p", ">">>

\* the word boundary events of the synthesis: one per word of the text, at the
\* offset of the word in the ssml; each word is spoken for seconds_per_chunk
RECURSIVE word_boundary_events(_, _, _)
word_boundary_events(ssml, i, n) ==
    IF i > Len(ssml) - 4 THEN <<>>
    ELSE IF ssml[i] # Space /\ (i = 4 \/ ssml[i - 1] = Space)
    THEN <<[audio_offset |-> n * seconds_per_chunk, text_offset |-> i - 1]>>
             \o word_boundary_events(ssml, i + 1, n + 1)
    ELSE word_boundary_events(ssml, i + 1, n)

\* str.split(">")[-1]: what follows the last ">"
RECURSIVE after_last_gt(_)
after_last_gt(text) ==
    IF text = <<>> THEN <<>>
    ELSE IF \E i \in 1..Len(text) : text[i] = ">"
    THEN after_last_gt(Tail(text))
    ELSE text

\* AzureSynthesizer.get_message_up_to
RECURSIVE get_message_up_to(_, _, _, _)
get_message_up_to(message, ssml, seconds, boundary_events) ==
    IF boundary_events = <<>> THEN message
    ELSE IF Head(boundary_events).audio_offset > seconds
    THEN after_last_gt(SubSeq(ssml, 1, Head(boundary_events).text_offset))
    ELSE get_message_up_to(message, ssml, seconds, Tail(boundary_events))

\* what the audio stream of a synthesis yields, read chunk_size bytes at a
\* time: full chunks, then one last chunk
AudioStreams ==
    UNION {[1..n -> 0..chunk_size] : n \in 1..MaxSpeechChunks}

chunk_stream(stream) ==
    \A i \in 1..(Len(stream) - 1) : stream[i] = chunk_size

\* AzureSynthesizer.create_speech: a text without a word character gets the
\* empty generator and the whole text as its message-up-to
create_speech(text, stream) ==
    IF ~has_word_character(text)
    THEN [chunks |-> <<>>, empty |-> TRUE]
    ELSE [chunks |-> stream, empty |-> FALSE]

\* synthesis_result.get_message_up_to(seconds)
message_up_to(e, seconds) ==
    IF e.synthesis.empty THEN e.message
    ELSE get_message_up_to(e.message, create_ssml(e.message), seconds,
                           word_boundary_events(create_ssml(e.message), 4, 0))

\* lines 764-766
speech_length_seconds(chunk) == (seconds_per_chunk * chunk) \div chunk_size

Max(a, b) == IF a >= b THEN a ELSE b

pacing_sleep_skips_speech_length(speech_length, elapsed, allowance) ==
    Max(0 - elapsed - allowance, 0)

\* lines 789-796: the argument of asyncio.sleep
pacing_sleep(speech_length, elapsed, allowance) ==
    Max(speech_length - elapsed - allowance, 0)

\* send_speech_to_output is called (lines 747-758); transcriber.mute() makes
\* the transcriber muted
speech_call(text, synthesis, allowance, mute_during_speech) ==
    [phase |-> "next", message |-> text, synthesis |-> synthesis,
     mute_during_speech |-> mute_during_speech, muted |-> mute_during_speech,
     per_chunk_allowance_seconds |-> allowance, stop_event |-> FALSE,
     chunk_idx |-> 0, seconds_spoken |-> 0, cut_off |-> FALSE,
     message_sent |-> text, wake |-> 0, device |-> <<>>,
     transcript_text |-> <<>>, published |-> <<>>,
     stopped |-> [at |-> 0, finish |-> FALSE, seen |-> FALSE]]

speech_return_keeps_running_text(e) ==
    [e EXCEPT !.phase = "returned",
              !.muted = IF e.mute_during_speech THEN FALSE ELSE @]

speech_return_leaves_muted(e) ==
    [e EXCEPT !.phase = "returned", !.transcript_text = e.message_sent]

\* lines 807-812: the loop is over; transcriber.unmute() ends the muting
speech_return(e) ==
    [e EXCEPT !.phase = "returned",
              !.muted = IF e.mute_during_speech THEN FALSE ELSE @,
              !.transcript_text = e.message_sent]

speech_chunk_ships_after_stop(e, now, finish_sentence) ==
    LET chunk == e.synthesis.chunks[e.chunk_idx + 1]
        seen == e.stop_event /\ ~e.cut_off
        e1 == [e EXCEPT !.seconds_spoken = e.chunk_idx * seconds_per_chunk,
                        !.cut_off = @ \/ seen,
                        !.stopped = IF seen
                                    THEN [at |-> e.chunk_idx, seen |-> TRUE,
                                          finish |-> finish_sentence]
                                    ELSE @]
    IN  [e1 EXCEPT
            !.device = Append(@, [chunk_idx |-> e.chunk_idx, at |-> now]),
            !.wake = now + pacing_sleep(speech_length_seconds(chunk), 0,
                                        e.per_chunk_allowance_seconds),
            !.phase = "sleeping"]

\* lines 763-796, one chunk: the stop event is looked at, and either the loop
\* ends or the chunk is shipped and the pacing sleep begins. finish_sentence
\* is the answer of should_finish_sentence; e.stopped records the look.
\* No await lies between start_time and end_time, so end_time - start_time is 0.
speech_chunk(e, now, finish_sentence) ==
    LET chunk == e.synthesis.chunks[e.chunk_idx + 1]
        seen == e.stop_event /\ ~e.cut_off
        e1 == [e EXCEPT !.seconds_spoken = e.chunk_idx * seconds_per_chunk,
                        !.cut_off = @ \/ seen,
                        !.stopped = IF seen
                                    THEN [at |-> e.chunk_idx, seen |-> TRUE,
                                          finish |-> finish_sentence]
                                    ELSE @]
    IN  IF seen /\ ~finish_sentence
        THEN speech_return(
                 [e1 EXCEPT !.message_sent =
                                message_up_to(e, e1.seconds_spoken) \o <<"-">>])
        ELSE [e1 EXCEPT
                !.device = Append(@, [chunk_idx |-> e.chunk_idx, at |-> now]),
                !.wake = now + pacing_sleep(speech_length_seconds(chunk), 0,
                                            e.per_chunk_allowance_seconds),
                !.phase = "sleeping"]

speech_next_cuts_off_when_stopped(e, now, finish_sentence) ==
    IF e.chunk_idx = Len(e.synthesis.chunks)
    THEN speech_return([e EXCEPT !.cut_off = @ \/ e.stop_event])
    ELSE speech_chunk(e, now, finish_sentence)

\* line 759: the generator is exhausted, or yields its next chunk
speech_next(e, now, finish_sentence) ==
    IF e.chunk_idx = Len(e.synthesis.chunks) THEN speech_return(e)
    ELSE speech_chunk(e, now, finish_sentence)

speech_wake_keeps_seconds_spoken(e) ==
    [e EXCEPT !.chunk_idx = @ + 1,
              !.transcript_text = message_up_to(e, e.seconds_spoken + seconds_per_chunk),
              !.phase = "next"]

\* lines 797-806: after the sleep
speech_wake(e) ==
    [e EXCEPT !.chunk_idx = @ + 1,
              !.seconds_spoken = @ + seconds_per_chunk,
              !.transcript_text = message_up_to(e, e.seconds_spoken + seconds_per_chunk),
              !.phase = "next"]

\* Transcript.maybe_publish_transcript_event_from_message: the message goes to
\* the events manager as it is
maybe_publish_transcript_event_from_message(e) ==
    [e EXCEPT !.published = Append(@, e.transcript_text), !.phase = "done"]

\* what SynthesisResultsWorker speaks: a text the synthesizer has no audio
\* for, and a text of two words
SpokenMessages == { <<"-">>, <<"h", "i", Space, "y", "o">> }

TimedTranscriptions ==
    {t \in Transcriptions :
        /\ t.confidence = 1
        /\ \/ t.message = <<Space>>
           \/ t.is_final /\ t.message \in PipelineMessages}

InitEmitter ==
    /\ \E cfg \in {c \in Configs : c.interrupt_initial_message} :
          IsState(start(ConstructedState(cfg)))
    /\ policy = NoPolicy
    /\ lifecycle = NoLifecycle
    /\ deepgram = NoDeepgram
    /\ \E text \in SpokenMessages, stream \in AudioStreams, allowance \in 0..1,
          mute_during_speech \in BOOLEAN :
          /\ chunk_stream(stream)
          /\ speech = speech_call(text, create_speech(text, stream), allowance,
                                  mute_during_speech)

\* time passes
Tick ==
    /\ clock.now < MaxTime
    /\ SetState([State EXCEPT !.clock.now = @ + 1])
    /\ UNCHANGED <<policy, speech, lifecycle, deepgram>>

\* the event of the item being spoken is interrupted
StopEventSet ==
    /\ speech.phase \in {"next", "sleeping"}
    /\ ~speech.stop_event
    /\ speech' = [speech EXCEPT !.stop_event = TRUE]
    /\ UNCHANGED <<config, flags, queues, events, trackers, workers, audio,
                   transcript, log, policy, clock, lifecycle, deepgram>>

SpeechNextChunk ==
    /\ speech.phase = "next"
    /\ \E finish_sentence \in BOOLEAN :
          speech' = speech_next(speech, clock.now, finish_sentence)
    /\ UNCHANGED <<config, flags, queues, events, trackers, workers, audio,
                   transcript, log, policy, clock, lifecycle, deepgram>>

\* asyncio.sleep returns no earlier than asked; then line 800 marks the time
SpeechWake ==
    /\ speech.phase = "sleeping"
    /\ clock.now >= speech.wake
    /\ speech' = speech_wake(speech)
    /\ SetState(mark_last_action_timestamp(State))
    /\ UNCHANGED <<policy, lifecycle, deepgram>>

\* SynthesisResultsWorker.process, line 399
PublishTranscriptMessage ==
    /\ speech.phase = "returned"
    /\ speech' = maybe_publish_transcript_event_from_message(speech)
    /\ UNCHANGED <<config, flags, queues, events, trackers, workers, audio,
                   transcript, log, policy, clock, lifecycle, deepgram>>

TimedTranscriptionArrives == TranscriptionsWorkerReceives(TimedTranscriptions)

NextEmitter ==
    \/ Tick
    \/ StopEventSet
    \/ SpeechNextChunk
    \/ SpeechWake
    \/ PublishTranscriptMessage
    \/ TimedTranscriptionArrives

SpecEmitter == InitEmitter /\ [][NextEmitter]_vars

-----------------------------------------------------------------------------
(* start and terminate, step by step: every configuration of the optional   *)
(* tasks, a transcriber that may not get ready, a collaborator whose        *)
(* teardown may fail, and terminate called by several callers that          *)
(* interleave at its awaits                                                 *)

LifecycleConfigs ==
    [initial_message : BOOLEAN,        \* agent_config.initial_message
     events : BOOLEAN,                 \* events_manager.subscriptions is not empty
     track_bot_sentiment : BOOLEAN,    \* sentiment_config and track_bot_sentiment
     actions : BOOLEAN]                \* agent_config.actions: an ActionsWorker exists

\* the collaborator whose teardown raises, if any
Failing == {"none", "agent", "transcriber"}

\* who calls terminate: a caller outside the conversation, check_for_idle,
\* AgentResponsesWorker.process on Stop, SynthesisResultsWorker.process on goodbye
Callers == {"external", "check_for_idle", "agent_responses_worker",
            "synthesis_results_worker"}

\* at: how far start was when the call was made
NoCall == [caller |-> "none", at |-> "none", pc |-> "none", cancel |-> FALSE,
           steps |-> {}]

Ended == {"returned", "raised", "cancelled"}

constructed(cfg, failing) ==
    [config |-> cfg, failing |-> failing, start |-> "not_called",
     active |-> FALSE, agent_started |-> FALSE, workers_started |-> FALSE,
     tasks |-> [initial_message |-> "none", check_for_idle |-> "none",
                track_bot_sentiment |-> "none", events |-> "none"],
     published |-> 0, calls |-> [k \in 1..MaxCalls |-> NoCall]]

\* lines 547-556: the workers are started, start waits for the transcriber
start_begin(c) == [c EXCEPT !.start = "await_ready", !.workers_started = TRUE]

start_ready_ignores_answer(c, is_ready) ==
    [c EXCEPT !.start = IF is_ready THEN "done" ELSE "raised",
              !.agent_started = TRUE,
              !.tasks.initial_message = IF c.config.initial_message THEN "running" ELSE @,
              !.active = TRUE,
              !.tasks.track_bot_sentiment =
                  IF c.config.track_bot_sentiment THEN "running" ELSE @,
              !.tasks.check_for_idle = "running",
              !.tasks.events = IF c.config.events THEN "running" ELSE @]

\* lines 556-586: transcriber.ready() has answered. The awaits of lines 570
\* and 577 are taken as returning at once.
start_ready(c, is_ready) ==
    IF ~is_ready THEN [c EXCEPT !.start = "raised"]
    ELSE [c EXCEPT !.start = "done",
                   !.agent_started = TRUE,
                   !.tasks.initial_message =
                       IF c.config.initial_message THEN "running" ELSE @,
                   !.active = TRUE,
                   !.tasks.track_bot_sentiment =
                       IF c.config.track_bot_sentiment THEN "running" ELSE @,
                   !.tasks.check_for_idle = "running",
                   !.tasks.events = IF c.config.events THEN "running" ELSE @]

\* Task.cancel() on the task of a caller: a terminate call that task is in
\* gets CancelledError at its next await that suspends
request_cancel(c, caller) ==
    [c EXCEPT !.calls = [k \in 1..MaxCalls |->
                            IF c.calls[k].caller = caller /\ c.calls[k].pc \notin Ended
                            THEN [c.calls[k] EXCEPT !.cancel = TRUE]
                            ELSE c.calls[k]]]

\* cancel_current_task and terminate of a worker cancel the process call in flight
cancel_worker(c, worker) == request_cancel(c, worker)

\* Task.cancel() on a task attribute that is not None
cancel_task(task) == IF task = "running" THEN "cancelled" ELSE task

step(c, k, name) == [c EXCEPT !.calls[k].steps = @ \cup {name}]

raise(c, k) == [c EXCEPT !.calls[k].pc = "raised"]

\* lines 837-865: the teardown of the collaborators up to the wait for the
\* transcriber; what a collaborator raises leaves terminate
terminate_teardown(c, k) ==
    LET c1 == step(c, k, "synthesizer")
        c2 == step(c1, k, "agent")
        c3 == step(c2, k, "output_device")
        c4 == step(c3, k, "transcriber")
        c5 == step(c4, k, "transcriptions_worker")
        c6 == cancel_worker(step(c5, k, "agent_responses_worker"),
                            "agent_responses_worker")
        c7 == cancel_worker(step(c6, k, "synthesis_results_worker"),
                            "synthesis_results_worker")
        c8 == step(c7, k, "random_audio_manager")
        c9 == IF c.config.actions THEN step(c8, k, "actions_worker") ELSE c8
    IN  IF c.failing = "agent" THEN raise(c2, k)
        ELSE [c9 EXCEPT !.calls[k].pc = "await_transcriber"]

\* lines 818-836: broadcast_interrupt, the TranscriptCompleteEvent, the
\* cancellation of the tasks. initial_message_task is None unless start has
\* created it, and None has no done(): line 824 raises AttributeError.
terminate_enter(c, k) ==
    LET c1 == cancel_worker(c, "agent_responses_worker")
        c2 == [c1 EXCEPT !.published = IF c1.active THEN @ + 1 ELSE @,
                         !.active = FALSE]
        c3 == [c2 EXCEPT !.tasks.initial_message = cancel_task(@),
                         !.tasks.check_for_idle = cancel_task(@),
                         !.tasks.track_bot_sentiment = cancel_task(@),
                         !.tasks.events = cancel_task(@)]
        c4 == IF c2.tasks.check_for_idle # "none"
              THEN request_cancel(c3, "check_for_idle") ELSE c3
    IN  IF c2.tasks.initial_message = "none" THEN raise(c2, k)
        ELSE IF c2.tasks.events # "none"
        THEN [c4 EXCEPT !.calls[k].pc = "flush"]
        ELSE terminate_teardown(c4, k)

\* an await of terminate is over; suspended: the awaited call did suspend
resume(c, k, suspended, next) ==
    IF c.calls[k].cancel /\ suspended
    THEN [c EXCEPT !.calls[k].pc = "cancelled"]
    ELSE next

\* line 836 is over
terminate_flushed(c, k, suspended) ==
    resume(c, k, suspended, terminate_teardown(c, k))

\* line 865 is over: the transcriber's terminate task has ended
terminate_transcriber_done(c, k) ==
    resume(c, k, TRUE,
           IF c.failing = "transcriber" THEN raise(c, k)
           ELSE [c EXCEPT !.calls[k].pc = "await_synthesizer"])

\* lines 867-869: the synthesizer's tear_down task has ended
terminate_synthesizer_done(c, k) ==
    resume(c, k, TRUE, [c EXCEPT !.calls[k].pc = "returned"])

InitLifecycle ==
    /\ \E cfg \in {x \in Configs : x.interrupt_initial_message} :
          IsState(ConstructedState(cfg))
    /\ policy = NoPolicy
    /\ speech = NoSpeech
    /\ \E cfg \in LifecycleConfigs, failing \in Failing :
          lifecycle = constructed(cfg, failing)
    /\ deepgram = NoDeepgram

Pipeline == <<config, flags, queues, events, trackers, workers, audio,
              transcript, log, policy, clock, speech, deepgram>>

StartCalled ==
    /\ lifecycle.start = "not_called"
    /\ lifecycle' = start_begin(lifecycle)
    /\ UNCHANGED Pipeline

TranscriberAnswers ==
    /\ lifecycle.start = "await_ready"
    /\ \E is_ready \in BOOLEAN : lifecycle' = start_ready(lifecycle, is_ready)
    /\ UNCHANGED Pipeline

\* a caller's task is alive at the moment of its call: the watchdog runs and
\* has found the conversation active, a worker has not been told to terminate
can_call(c, caller) ==
    \/ caller = "external"
    \/ /\ caller = "check_for_idle"
       /\ c.tasks.check_for_idle = "running"
       /\ c.active
    \/ /\ caller \in {"agent_responses_worker", "synthesis_results_worker"}
       /\ c.start = "done"
       /\ \A k \in 1..MaxCalls : caller \notin c.calls[k].steps
       /\ \A k \in 1..MaxCalls : c.calls[k].caller # caller

TerminateCalled ==
    \E k \in 1..MaxCalls, caller \in Callers :
        /\ lifecycle.calls[k].pc = "none"
        /\ \A j \in 1..(k - 1) : lifecycle.calls[j].pc # "none"
        /\ can_call(lifecycle, caller)
        /\ lifecycle' = terminate_enter(
                            [lifecycle EXCEPT !.calls[k].caller = caller,
                                              !.calls[k].at = lifecycle.start,
                                              !.calls[k].pc = "entered"], k)
        /\ UNCHANGED Pipeline

TerminateFlushed ==
    \E k \in 1..MaxCalls, suspended \in BOOLEAN :
        /\ lifecycle.calls[k].pc = "flush"
        /\ lifecycle' = terminate_flushed(lifecycle, k, suspended)
        /\ UNCHANGED Pipeline

TerminateTranscriberDone ==
    \E k \in 1..MaxCalls :
        /\ lifecycle.calls[k].pc = "await_transcriber"
        /\ lifecycle' = terminate_transcriber_done(lifecycle, k)
        /\ UNCHANGED Pipeline

TerminateSynthesizerDone ==
    \E k \in 1..MaxCalls :
        /\ lifecycle.calls[k].pc = "await_synthesizer"
        /\ lifecycle' = terminate_synthesizer_done(lifecycle, k)
        /\ UNCHANGED Pipeline

NextLifecycle ==
    \/ StartCalled
    \/ TranscriberAnswers
    \/ TerminateCalled
    \/ TerminateFlushed
    \/ TerminateTranscriberDone
    \/ TerminateSynthesizerDone

SpecLifecycle == InitLifecycle /\ [][NextLifecycle]_vars

-----------------------------------------------------------------------------
(* A later turn of the call: the human has spoken three times, the initial  *)
(* message is over, the agent is answering the third utterance. The agent's *)
(* responses, the synthesis, the emission with the goodbye detector, and    *)
(* one more utterance of the human interleave.                              *)

TurnConfigs ==
    [min_interrupt_confidence : {1},
     interruption_word_threshold : {2},
     initial_message : {TRUE},
     interrupt_initial_message : {TRUE},
     send_follow_up_audio : {TRUE},
     end_conversation_on_goodbye : BOOLEAN,
     initial_message_delay_seconds : {0}]

\* the utterance the agent is answering
AnsweredUtterance ==
    [seq |-> 0, message |-> <<"x", Space, "x">>, confidence |-> 1,
     is_final |-> TRUE, is_interrupt |-> FALSE]

HumanMessage == [sender |-> "HUMAN", text |-> "human", published |-> 1]

\* the conversation after start, the initial message over, with or without
\* a bot turn that SynthesisResultsWorker has finished
earlier_turns(cfg, bot_turn) ==
    LET s0 == start(ConstructedState(cfg))
        s1 == [s0 EXCEPT !.workers.initial_message_task.state = "done",
                         !.flags.sent_initial_message = TRUE,
                         !.flags.human_has_spoken = TRUE,
                         !.transcript = <<HumanMessage, HumanMessage>>,
                         !.log.budget = MaxTurnEvents]
        s2 == create_interruptible_event(
                  s1, "synthesis", Payload("Synthesis", NoTranscription, 0), TRUE, 0)
        s3 == set_tracker(s2, s2.events[last_event(s2)].tracker)
    IN  IF bot_turn
        THEN [s3 EXCEPT !.events[last_event(s2)].done = TRUE,
                        !.workers.srw.interruptible_event = last_event(s2),
                        !.transcript = Append(@, [sender |-> "BOT", text |-> "full",
                                                  published |-> 1])]
        ELSE s1

\* the agent has taken the third utterance from its input queue
answering(s) ==
    LET s1 == put_agent_input(agent_input_event(s, AnsweredUtterance))
    IN  [s1 EXCEPT !.queues.agent_input = Tail(@),
                   !.log.received = MaxTranscriptions - 1,
                   !.workers.agent = last_event(s1),
                   !.transcript = Append(@, HumanMessage),
                   !.log.last.forwarded = 0,
                   !.log.broker.window = FALSE]

\* human_messages_in_transcript is 0 until a FillerAudio item has recounted it
InitTurn ==
    /\ \E cfg \in TurnConfigs, bot_turn, spoken, counted \in BOOLEAN :
          /\ spoken => bot_turn
          /\ IsState([answering(earlier_turns(cfg, bot_turn)) EXCEPT
                         !.flags.bot_has_spoken = spoken,
                         !.flags.human_messages_in_transcript =
                             IF counted THEN 3 ELSE 0])
    /\ policy = NoPolicy
    /\ speech = NoSpeech
    /\ lifecycle = NoLifecycle
    /\ deepgram = NoDeepgram

\* line 396: the length message_sent has to exceed
sent_threshold == 5

\* message_sent is one character short of the threshold, at it, or above it
SentLengths == (sent_threshold - 1)..(sent_threshold + 1)

exceeds_five_from_five(length) == length >= sent_threshold

\* line 396: len(message_sent) > 5
exceeds_five(length) == length > sent_threshold

\* log.sent records what send_speech_to_output has returned
returned(s, cut_off, length) ==
    IF s.workers.srw.stage = "emit" THEN s
    ELSE [s EXCEPT !.log.sent = [cut_off |-> cut_off, length |-> length]]

\* the chunk stream yields its next chunk
TurnSendChunk ==
    /\ Running
    /\ workers.srw.stage = "emit"
    /\ workers.srw.chunk_idx < events[workers.srw.current].payload.chunks
    /\ \E finish_sentence \in BOOLEAN, length \in SentLengths :
          LET s == send_chunk(State, finish_sentence, exceeds_five(length))
          IN  /\ Within(s)
              /\ Set(returned(s, TRUE, length))

\* the chunk stream is exhausted: send_speech_to_output returns
TurnSpeechSent ==
    /\ Running
    /\ workers.srw.stage = "emit"
    /\ workers.srw.chunk_idx = events[workers.srw.current].payload.chunks
    /\ \E length \in SentLengths :
          LET s == after_speech(State, workers.srw.cut_off, exceeds_five(length))
          IN  /\ Within(s)
              /\ Set(returned(s, workers.srw.cut_off, length))

\* terminate called by SynthesisResultsWorker.process: line 859 cancels the
\* worker, and process ends at its except clause or with terminate's error
goodbye_terminate(s) ==
    [terminate(s) EXCEPT !.workers.srw.current = 0, !.workers.srw.stage = "idle"]

goodbye_answered_terminates_on_timeout(s, answer) ==
    LET s1 == [s EXCEPT !.log.goodbye = answer]
    IN  IF answer = "false" THEN follow_up_step(s1)
        ELSE [s1 EXCEPT !.workers.srw.stage = "goodbye_sleep"]

\* lines 416-424: wait_for has returned the detector's answer or has raised
\* TimeoutError
goodbye_answered(s, answer) ==
    LET s1 == [s EXCEPT !.log.goodbye = answer]
    IN  IF answer = "true" THEN [s1 EXCEPT !.workers.srw.stage = "goodbye_sleep"]
        ELSE follow_up_step(s1)

GoodbyeAnswers == {"true", "false", "timeout"}

GoodbyeAnswered ==
    /\ Running
    /\ workers.srw.stage = "goodbye"
    /\ \E answer \in GoodbyeAnswers :
          /\ Within(goodbye_answered(State, answer))
          /\ Set(goodbye_answered(State, answer))

\* lines 420-421: the two seconds are over
GoodbyeSleepOver ==
    /\ Running
    /\ workers.srw.stage = "goodbye_sleep"
    /\ Set(goodbye_terminate(State))

\* the human speaks over the turn: an interim and a final utterance that
\* is_interrupt takes for an interrupt
BargeIns == {t \in LiveTranscriptions : t.message = <<"x", Space, "x">>}

BargeInArrives == TranscriptionsWorkerReceives(BargeIns)

NextTurn ==
    \/ BargeInArrives
    \/ AgentRespond
    \/ AgentDone
    \/ AgentResponsesWorkerGet
    \/ SpeechCreated
    \/ BacktrackResume
    \/ SynthesisResultsWorkerGet
    \/ TurnSendChunk
    \/ TurnSpeechSent
    \/ GoodbyeAnswered
    \/ GoodbyeSleepOver
    \/ AudioPlayed

SpecTurn == InitTurn /\ [][NextTurn]_vars

-----------------------------------------------------------------------------
(* The agent's answer to an utterance in several messages: the bot has      *)
(* spoken a turn, the agent is answering, the human stays silent, and the   *)
(* synthesizer may fail on a message.                                       *)

\* events in one behaviour of an answer
AnswerEvents == MaxTurnEvents + 2

InitAnswer ==
    /\ \E cfg \in {c \in TurnConfigs : ~c.end_conversation_on_goodbye} :
          IsState([answering(earlier_turns(cfg, TRUE)) EXCEPT
                      !.flags.bot_has_spoken = TRUE,
                      !.log.budget = AnswerEvents])
    /\ policy = NoPolicy
    /\ speech = NoSpeech
    /\ lifecycle = NoLifecycle
    /\ deepgram = NoDeepgram

\* create_speech raises at line 308: the exception is none that line 326
\* catches, it leaves process, and the worker loop goes on with its next item
AgentResponsesWorker_speech_failed(s) == arw_item_done(s)

SpeechFailed ==
    /\ Running
    /\ workers.arw.stage = "create_speech"
    /\ Set(AgentResponsesWorker_speech_failed(State))

NextAnswer ==
    \/ AgentRespond
    \/ AgentDone
    \/ AgentResponsesWorkerGet
    \/ SpeechCreated
    \/ SpeechFailed
    \/ SynthesisResultsWorkerGet
    \/ SendChunk
    \/ SpeechSent
    \/ AudioPlayed

SpecAnswer == InitAnswer /\ [][NextAnswer]_vars

-----------------------------------------------------------------------------
(* DeepgramTranscriber: the run loop around one websocket connection,        *)
(* transcriber/deepgram_transcriber.py                                       *)

NUM_RESTARTS == 5

\* __init__, lines 64-66, before the run loop task has taken its first step
DeepgramConstructed ==
    [run |-> "constructed",       \* where _run_loop stands
     ended |-> FALSE,             \* self._ended
     restarts |-> 0,              \* the local of _run_loop
     task |-> "none",             \* self._task: none, gathering, over
     sender |-> "off",
     receiver |-> "off",
     closed |-> FALSE,            \* the websocket of this attempt has dropped
     received_first_audio |-> FALSE,
     terminate |-> "not_called",
     attempts |-> 0,              \* calls of process so far
     late_attempts |-> 0]         \* calls of process made with _ended set

\* process up to its await of websockets.connect, lines 339-347
connect(d) ==
    [d EXCEPT !.run = "connecting",
              !.closed = FALSE,
              !.attempts = @ + 1,
              !.late_attempts = IF d.ended THEN @ + 1 ELSE @]

\* the while condition of line 74, then line 75
run_loop_test(d) ==
    IF ~d.ended /\ d.restarts < NUM_RESTARTS
        THEN connect(d)
        ELSE [d EXCEPT !.run = "stopped"]

\* process has returned: lines 76-81, then the loop test again
run_loop_next(d) ==
    IF d.ended
        THEN [d EXCEPT !.run = "stopped"]
        ELSE run_loop_test([d EXCEPT !.restarts = @ + 1])

\* the await of line 350 after a step of the sender or of the receiver: gather
\* raises the first exception of a child, which neither process (line 351) nor
\* _run_loop (line 82) catches; it returns when both children have returned
gathered(d) ==
    IF d.sender = "raised"
        THEN [d EXCEPT !.run = "raised", !.task = "over"]
        ELSE IF d.sender = "returned" /\ d.receiver = "returned"
            THEN run_loop_next([d EXCEPT !.task = "over"])
            ELSE d

\* the while tests of lines 191 and 246
loop_again(d) == IF d.ended THEN "returned" ELSE "running"

\* ws.send on a dropped connection raises ConnectionClosed, which the sender
\* does not catch
ws_send(d) == IF d.closed THEN "raised" ELSE loop_again(d)

\* lines 348-350: the connection is up and both loops take their first test
connected(d) ==
    gathered([d EXCEPT !.run = "connected",
                       !.task = "gathering",
                       !.sender = loop_again(d),
                       !.receiver = loop_again(d)])

\* sender, lines 195-198 and 228-235: a chunk came out of the input queue
sender_audio(d) ==
    gathered([d EXCEPT !.received_first_audio = TRUE, !.sender = ws_send(d)])

\* sender, lines 217-227: nothing in the input queue for five seconds
sender_timeout(d) ==
    gathered([d EXCEPT !.sender =
                 IF ~d.received_first_audio THEN ws_send(d)
                 ELSE IF d.ended THEN ws_send(d)
                 ELSE "returned"])

\* receiver, lines 248-251: recv on a dropped connection
receiver_closed(d) == gathered([d EXCEPT !.receiver = "returned"])

\* receiver, lines 259-267 and on: a message, with or without "is_final"
receiver_message(d, has_is_final) ==
    IF has_is_final
        THEN gathered([d EXCEPT !.receiver = loop_again(d)])
        ELSE gathered([d EXCEPT !.ended = TRUE, !.receiver = "returned"])

\* terminate, lines 101-106: _task is None until the first connection is up
\* (AttributeError, after _ended is set); cancelling the running gather
\* cancels both children, process returns at line 352 and line 76 breaks
deepgram_terminate(d) ==
    LET e == [d EXCEPT !.ended = TRUE] IN
    IF d.task = "none"
        THEN [e EXCEPT !.terminate = "raised"]
        ELSE IF d.task = "gathering"
            THEN [e EXCEPT !.terminate = "returned",
                           !.task = "over",
                           !.sender = "cancelled",
                           !.receiver = "cancelled",
                           !.run = "stopped"]
            ELSE [e EXCEPT !.terminate = "returned"]

InitDeepgram ==
    /\ \E cfg \in {x \in Configs : x.interrupt_initial_message} :
          IsState(ConstructedState(cfg))
    /\ policy = NoPolicy
    /\ speech = NoSpeech
    /\ lifecycle = NoLifecycle
    /\ deepgram = DeepgramConstructed

DeepgramStep(d) ==
    /\ deepgram' = d
    /\ UNCHANGED <<config, flags, queues, events, trackers, workers, audio,
                   transcript, log, policy, clock, speech, lifecycle>>

RunLoopStarts ==
    /\ deepgram.run = "constructed"
    /\ DeepgramStep(run_loop_test(deepgram))

Connected ==
    /\ deepgram.run = "connecting"
    /\ DeepgramStep(connected(deepgram))

ConnectionDrops ==
    /\ deepgram.run = "connected"
    /\ ~deepgram.closed
    /\ DeepgramStep([deepgram EXCEPT !.closed = TRUE])

SenderGetsAudio ==
    /\ deepgram.run = "connected"
    /\ deepgram.sender = "running"
    /\ DeepgramStep(sender_audio(deepgram))

SenderTimesOut ==
    /\ deepgram.run = "connected"
    /\ deepgram.sender = "running"
    /\ DeepgramStep(sender_timeout(deepgram))

ReceiverFindsClosed ==
    /\ deepgram.run = "connected"
    /\ deepgram.receiver = "running"
    /\ deepgram.closed
    /\ DeepgramStep(receiver_closed(deepgram))

ReceiverGetsMessage ==
    /\ deepgram.run = "connected"
    /\ deepgram.receiver = "running"
    /\ ~deepgram.closed
    /\ \E has_is_final \in BOOLEAN :
          DeepgramStep(receiver_message(deepgram, has_is_final))

DeepgramTerminate ==
    /\ deepgram.run # "off"
    /\ deepgram.terminate = "not_called"
    /\ DeepgramStep(deepgram_terminate(deepgram))

NextDeepgram ==
    \/ RunLoopStarts
    \/ Connected
    \/ ConnectionDrops
    \/ SenderGetsAudio
    \/ SenderTimesOut
    \/ ReceiverFindsClosed
    \/ ReceiverGetsMessage
    \/ DeepgramTerminate

SpecDeepgram == InitDeepgram /\ [][NextDeepgram]_vars

-----------------------------------------------------------------------------
(* The delay of the initial message: the clock runs, start marks              *)
(* call_start_time, and SynthesisResultsWorker sleeps what is left of         *)
(* agent_config.initial_message_delay_seconds                                 *)

MaxDelay == 2           \* initial_message_delay_seconds is 0 (none) to MaxDelay

InitDelay ==
    /\ \E cfg \in Configs, delay \in 0..MaxDelay :
          IsState(ConstructedState(
              [cfg EXCEPT !.initial_message_delay_seconds = delay,
                          !.send_follow_up_audio = FALSE]))
    /\ policy = NoPolicy
    /\ speech = NoSpeech
    /\ lifecycle = NoLifecycle
    /\ deepgram = NoDeepgram

\* asyncio.sleep (line 373) returns no earlier than asked
InitialDelayOver ==
    /\ Running
    /\ workers.srw.stage = "delay"
    /\ clock.now >= workers.srw.wake
    /\ Set(speech_begins(State))

\* the first utterance of the human, before the initial message or during it
FirstUtteranceArrives ==
    /\ ~flags.human_has_spoken
    /\ TranscriptionsWorkerReceives({t \in LiveTranscriptions : t.is_final})

NextDelay ==
    \/ Tick
    \/ Start
    \/ SendInitialMessage
    \/ InitialMessageSent
    \/ FirstUtteranceArrives
    \/ AgentResponsesWorkerGet
    \/ SpeechCreated
    \/ SynthesisResultsWorkerGet
    \/ InitialDelayOver
    \/ SendChunk
    \/ SpeechSent
    \/ Terminate

SpecDelay == InitDelay /\ [][NextDelay]_vars

-----------------------------------------------------------------------------
(* Properties *)

\* C1: whenever broadcast_interrupt returns, the agent output queue (which is
\* also the AgentResponsesWorker input queue), the synthesis results queue and
\* the output device queue are all empty, whatever they held at the call.
BrokerLeavesQueuesEmpty ==
    log.broker.calls > 0 =>
        /\ log.broker.left.agent_output = <<>>
        /\ log.broker.left.synthesis_results = <<>>
        /\ log.broker.left.output_device = <<>>

\* a broker call that found items both on the agent output queue and on the
\* output device queue
BrokerClearedHeldQueues ==
    /\ log.broker.calls > 0
    /\ log.broker.held.agent_output > 0
    /\ log.broker.held.output_device > 0

\* C2: while the conversation runs, every agent-response event that has left
\* the pipeline (it is on no queue, no worker holds it or the synthesis made
\* from it, no audio task holds its tracker) has had its completion tracker
\* set, and no tracker is set more than once.
EveryTrackerSetExactlyOnce ==
    Running =>
        \A i \in 1..Len(events) :
            /\ trackers[i] <= 1
            /\ ( /\ events[i].kind = "agent_response"
                 /\ \A k \in 1..Len(queues.agent_output) : queues.agent_output[k] # i
                 /\ workers.arw.current # i
                 /\ workers.initial_message_task.state # "created"
                 /\ \A k \in 1..Len(queues.synthesis_results) :
                        events[queues.synthesis_results[k]].tracker # i
                 /\ workers.srw.current # 0 => events[workers.srw.current].tracker # i
                 /\ audio.tracker # i )
               => trackers[i] = 1

\* C3: from a broker call until the next agent input is enqueued,
\* SynthesisResultsWorker takes no synthesis result made from an agent
\* response that existed when the broker was called, a synthesis in flight
\* in AgentResponsesWorker at that moment included.
NoStaleSynthesisResultDelivered == log.stale = 0

\* the broker ran while AgentResponsesWorker was synthesizing a Message, and
\* no agent input has been enqueued since
BrokerRanDuringSynthesis ==
    /\ log.broker.window
    /\ log.broker.in_flight
    /\ workers.arw.current = 0

\* C4 as stated: a handled transcription for which is_interrupt is false
\* leaves the agent input queue, the agent output queue, the synthesis
\* results queue and the output device queue unchanged.
NonInterruptLeavesQueuesUnchanged ==
    [][ ( /\ log'.received = log.received + 1
          /\ ~is_interrupt(log'.last.transcription, config) )
        => ( /\ queues'.agent_input = queues.agent_input
             /\ queues'.agent_output = queues.agent_output
             /\ queues'.synthesis_results = queues.synthesis_results
             /\ queues'.output_device = queues.output_device ) ]_vars

\* C4, amended: a handled transcription for which is_interrupt is false
\* leaves the four queues unchanged when the interrupt check is needed, or
\* the transcription is not final, or its text is blank.
CheckedNonInterruptLeavesQueuesUnchanged ==
    [][ ( /\ log'.received = log.received + 1
          /\ ~is_interrupt(log'.last.transcription, config)
          /\ \/ log'.last.check
             \/ ~log'.last.transcription.is_final
             \/ strip(log'.last.transcription.message) = <<>> )
        => ( /\ queues'.agent_input = queues.agent_input
             /\ queues'.agent_output = queues.agent_output
             /\ queues'.synthesis_results = queues.synthesis_results
             /\ queues'.output_device = queues.output_device ) ]_vars

\* the check ran on a final utterance at the confidence threshold that is no
\* interrupt, while an item was waiting on the agent output queue
CheckedNonInterruptHandled ==
    /\ log.received > 0
    /\ log.last.check
    /\ log.last.transcription.is_final
    /\ log.last.transcription.confidence >= config.min_interrupt_confidence
    /\ ~is_interrupt(log.last.transcription, config)
    /\ log.last.forwarded = 0
    /\ queues.agent_output # <<>>

\* C5 as stated: when the interrupt check is not needed, a transcription is
\* forwarded only if it is final and its confidence is at least
\* min_interrupt_confidence.
UncheckedForwardsOnlyFinalConfident ==
    (log.received > 0 /\ ~log.last.check /\ log.last.forwarded # 0) =>
        /\ log.last.transcription.is_final
        /\ log.last.transcription.confidence >= config.min_interrupt_confidence

\* C5, amended: when the interrupt check is not needed, a transcription is
\* forwarded only if it is final, and a final utterance is forwarded
\* whatever its confidence; a non-final transcription is never forwarded.
UncheckedForwardsExactlyFinal ==
    ( /\ log.received > 0
      /\ ~log.last.check
      /\ strip(log.last.transcription.message) # <<>>
      /\ log.last.transcription.message # HUMAN_ACTIVITY_DETECTED ) =>
        (log.last.forwarded # 0 <=> log.last.transcription.is_final)

\* without a check, a final utterance below the confidence threshold was
\* forwarded
UncheckedLowConfidenceForwarded ==
    /\ log.received > 0
    /\ ~log.last.check
    /\ log.last.forwarded # 0
    /\ log.last.transcription.confidence < config.min_interrupt_confidence

\* C6: a final utterance that triggers the broker is forwarded with
\* is_interrupt equal to what that broker call returned; a transcription
\* forwarded without a broker call keeps the is_interrupt it arrived with.
ForwardedCarriesBrokerResult ==
    log.received > 0 =>
        /\ ( /\ log.last.fired
             /\ log.last.transcription.is_final
             /\ log.last.transcription.message # HUMAN_ACTIVITY_DETECTED )
           => log.last.forwarded # 0
        /\ log.last.forwarded # 0 =>
               events[log.last.forwarded].payload.transcription.is_interrupt =
                   IF log.last.fired THEN log.last.ret
                   ELSE log.last.transcription.is_interrupt

\* a barge-in whose broker call interrupted an event was forwarded as an
\* interrupt
BargeInForwardedAsInterrupt ==
    /\ log.received > 0
    /\ log.last.fired
    /\ log.last.ret
    /\ log.last.forwarded # 0
    /\ events[log.last.forwarded].payload.transcription.is_interrupt

\* C7: no agent input event carries the HUMAN_ACTIVITY_DETECTED sentinel,
\* so none is ever on the agent input queue.
SentinelNeverForwarded ==
    /\ \A i \in 1..Len(events) :
          events[i].kind = "agent_input" =>
              events[i].payload.transcription.message # HUMAN_ACTIVITY_DETECTED
    /\ \A k \in 1..Len(queues.agent_input) :
          events[queues.agent_input[k]].payload.transcription.message
              # HUMAN_ACTIVITY_DETECTED

\* a final sentinel was handled without the interrupt check, after an earlier
\* broker call, and nothing was forwarded for it
SentinelHandledFinal ==
    /\ log.received > 0
    /\ log.last.transcription.message = HUMAN_ACTIVITY_DETECTED
    /\ log.last.transcription.is_final
    /\ log.broker.calls > 0
    /\ ~log.last.check
    /\ log.last.forwarded = 0

\* C8: the transcriptions on the agent input queue are in arrival order, and
\* each is one that was received.
ForwardedInArrivalOrder ==
    /\ \A k \in 1..Len(queues.agent_input) :
          LET t == events[queues.agent_input[k]].payload.transcription
          IN  t.seq >= 1 /\ t.seq <= log.received
    /\ \A j, k \in 1..Len(queues.agent_input) :
          j < k => events[queues.agent_input[j]].payload.transcription.seq
                     < events[queues.agent_input[k]].payload.transcription.seq

\* two forwarded transcriptions wait on the agent input queue
TwoForwardedWaiting == Len(queues.agent_input) >= 2

\* C9: in the step in which a transcription triggers the broker and is
\* forwarded, its agent input event is created after the broker's drain and
\* clearing: it is not interrupted, it is the one event on the agent input
\* queue behind what was there, and it is on the registry for the next call.
BrokerCompletesBeforeForwarding ==
    [][ ( /\ log'.received = log.received + 1
          /\ log'.last.fired
          /\ log'.last.forwarded # 0 )
        => ( /\ log'.last.forwarded > log'.broker.mark
             /\ ~events'[log'.last.forwarded].interrupted
             /\ queues'.agent_input = Append(queues.agent_input, log'.last.forwarded)
             /\ \E k \in 1..Len(queues'.interruptible_events) :
                    queues'.interruptible_events[k] = log'.last.forwarded ) ]_vars

\* a barge-in whose broker call interrupted events and cleared a queue was
\* forwarded, and its event waits uninterrupted for the agent
BargeInForwardedIntact ==
    /\ log.received > 0
    /\ log.last.fired
    /\ log.last.ret
    /\ log.broker.held.agent_output > 0
    /\ log.last.forwarded # 0
    /\ queues.agent_input # <<>>
    /\ queues.agent_input[Len(queues.agent_input)] = log.last.forwarded
    /\ ~events[log.last.forwarded].interrupted

\* C10: is_interrupt returns true for the sentinel whatever the confidence,
\* and false for every other message whose confidence is below
\* min_interrupt_confidence.
SentinelAlwaysLowConfidenceNever ==
    policy.phase = "returned" =>
        /\ policy.transcription.message = HUMAN_ACTIVITY_DETECTED => policy.result
        /\ ( /\ policy.transcription.message # HUMAN_ACTIVITY_DETECTED
             /\ policy.transcription.confidence < config.min_interrupt_confidence )
           => ~policy.result

\* is_interrupt returned true for a sentinel below min_interrupt_confidence
LowConfidenceSentinelIsInterrupt ==
    /\ policy.phase = "returned"
    /\ policy.transcription.message = HUMAN_ACTIVITY_DETECTED
    /\ policy.transcription.confidence < config.min_interrupt_confidence
    /\ policy.result

\* C11: for a non-sentinel transcription at or above min_interrupt_confidence,
\* is_interrupt returns false exactly when the message has zero or one word,
\* or contains a verbal cue and has at most interruption_word_threshold
\* words; otherwise it returns true.
ConfidentUtteranceIsInterruptRule ==
    ( /\ policy.phase = "returned"
      /\ policy.transcription.message # HUMAN_ACTIVITY_DETECTED
      /\ policy.transcription.confidence >= config.min_interrupt_confidence ) =>
        LET message == strip(lower(policy.transcription.message))
            n == Len(split(message))
        IN  ~policy.result <=>
                \/ n <= 1
                \/ /\ \E cue \in verbal_cues : contains(cue, message)
                   /\ n <= config.interruption_word_threshold

\* is_interrupt returned false for a confident two-word utterance with a
\* verbal cue, written in upper case, under a threshold of two words
ShortCueUtteranceIsNoInterrupt ==
    /\ policy.phase = "returned"
    /\ policy.transcription.message = <<"U", "h", Space, "x">>
    /\ policy.transcription.confidence >= config.min_interrupt_confidence
    /\ config.interruption_word_threshold = 2
    /\ ~policy.result

\* C12: last_action_timestamp never decreases; every transcription that
\* reaches TranscriptionsWorker sets it to the time of its arrival, and so
\* does every chunk the emitter has shipped, once its pacing sleep is over.
LastActionTimestampMonotoneAndRefreshed ==
    [][ /\ clock'.last_action_timestamp >= clock.last_action_timestamp
        /\ log'.received = log.received + 1
              => clock'.last_action_timestamp = clock'.now
        /\ (speech.phase = "sleeping" /\ speech'.phase = "next")
              => clock'.last_action_timestamp = clock'.now ]_vars

\* time has passed, a blank transcription has just been handled and has
\* refreshed the timestamp after a shipped chunk had refreshed it earlier
BlankTranscriptionRefreshedTimestamp ==
    /\ speech.phase # "off"
    /\ speech.chunk_idx > 0
    /\ log.received > 0
    /\ strip(log.last.transcription.message) = <<>>
    /\ clock.now > 1
    /\ clock.last_action_timestamp = clock.now

\* C13: the bot's transcript message is published at most once, and the
\* published text is the message_sent that send_speech_to_output returned:
\* the whole message, or, when the stop event ended the loop, the prefix
\* spoken so far followed by "-".
PublishedOnceWithMessageSent ==
    speech.phase # "off" =>
        /\ Len(speech.published) <= 1
        /\ speech.phase = "done" => Len(speech.published) = 1
        /\ speech.published # <<>> =>
              /\ speech.published[1] = speech.message_sent
              /\ speech.message_sent =
                    IF speech.stopped.seen /\ ~speech.stopped.finish
                    THEN message_up_to(speech, speech.stopped.at * seconds_per_chunk)
                             \o <<"-">>
                    ELSE speech.message

\* a turn cut off after its first chunk was published as "hi -"
CutOffTurnPublished ==
    /\ speech.phase = "done"
    /\ speech.cut_off
    /\ speech.published = << <<"h", "i", Space, "-">> >>

\* C17: the stop event is seen set at chunk i of a turn not yet cut off. If
\* should_finish_sentence says no, chunk i and the later chunks are never
\* shipped and the call returns (prefix up to i * seconds_per_chunk followed
\* by "-", cut_off, i * seconds_per_chunk). If it says yes, cut_off is set,
\* every remaining chunk is shipped and the returned text is the whole message.
StopEventCutsOrFinishes ==
    (speech.phase # "off" /\ speech.stopped.seen) =>
        /\ speech.cut_off
        /\ ~speech.stopped.finish =>
              /\ speech.phase \in {"returned", "done"}
              /\ \A k \in 1..Len(speech.device) :
                    speech.device[k].chunk_idx < speech.stopped.at
              /\ speech.message_sent =
                    message_up_to(speech, speech.stopped.at * seconds_per_chunk)
                        \o <<"-">>
              /\ speech.seconds_spoken = speech.stopped.at * seconds_per_chunk
        /\ (speech.stopped.finish /\ speech.phase \in {"returned", "done"}) =>
              /\ Len(speech.device) = Len(speech.synthesis.chunks)
              /\ \A k \in 1..Len(speech.device) : speech.device[k].chunk_idx = k - 1
              /\ speech.message_sent = speech.message

\* the stop event was seen at the second chunk of two, should_finish_sentence
\* said no, and the call has returned
StoppedAtSecondChunk ==
    /\ speech.phase = "returned"
    /\ speech.stopped.seen
    /\ ~speech.stopped.finish
    /\ speech.stopped.at = 1
    /\ Len(speech.synthesis.chunks) = 2
    /\ Len(speech.device) = 1

\* C18: a text without a word character gets an empty chunk stream, and on an
\* empty chunk stream send_speech_to_output ships nothing and returns without
\* sleeping the whole text, cut_off false and seconds_spoken 0, the stop event
\* being set or not.
EmptyStreamReturnsAtOnce ==
    speech.phase # "off" =>
        /\ ~has_word_character(speech.message) => speech.synthesis.chunks = <<>>
        /\ (speech.synthesis.chunks = <<>> /\ speech.phase \in {"returned", "done"}) =>
              /\ speech.device = <<>>
              /\ speech.wake = 0
              /\ speech.message_sent = speech.message
              /\ ~speech.cut_off
              /\ speech.seconds_spoken = 0

\* the call on "-" has returned, the stop event having been set before
EmptyStreamReturnedWhileStopped ==
    /\ speech.phase = "returned"
    /\ speech.message = <<"-">>
    /\ speech.synthesis.chunks = <<>>
    /\ speech.stop_event

TerminateIsIdempotent ==
    /\ lifecycle.start # "off" => lifecycle.published <= 1
    /\ lifecycle.start # "off" /\ lifecycle.failing = "none" =>
          \A k \in 1..MaxCalls :
              lifecycle.calls[k].at = "done" /\ lifecycle.calls[k].pc \in Ended =>
                  /\ ~lifecycle.active
                  /\ lifecycle.calls[k].pc # "raised"

\* the teardown steps of a configuration
teardown_steps(cfg) ==
    {"synthesizer", "agent", "output_device", "transcriber", "transcriptions_worker",
     "agent_responses_worker", "synthesis_results_worker", "random_audio_manager"}
    \cup (IF cfg.actions THEN {"actions_worker"} ELSE {})

\* C15: every terminate call made on a started conversation, whatever the
\* configuration, the caller and the outcome of the collaborators' teardowns,
\* ends only by returning, with all of its teardown steps run.
EveryTerminateCompletes ==
    lifecycle.start # "off" =>
        \A k \in 1..MaxCalls :
            lifecycle.calls[k].at = "done" /\ lifecycle.calls[k].pc \in Ended =>
                /\ lifecycle.calls[k].pc = "returned"
                /\ lifecycle.calls[k].steps = teardown_steps(lifecycle.config)

\* C16: when the transcriber's ready() returns false, start raises and the
\* conversation is not active, the agent is not started, and neither the
\* initial message task nor the idle watchdog exists.
FailedStartLeavesConversationInactive ==
    lifecycle.start = "raised" =>
        /\ ~lifecycle.active
        /\ ~lifecycle.agent_started
        /\ lifecycle.tasks.initial_message = "none"
        /\ lifecycle.tasks.check_for_idle = "none"

\* start has raised for a conversation configured with an initial message
StartRaisedWithInitialMessageConfigured ==
    /\ lifecycle.start = "raised"
    /\ lifecycle.config.initial_message
    /\ lifecycle.workers_started


\* C20: whenever AgentResponsesWorker handles a BacktrackAudio item and waits
\* for the tracker of SynthesisResultsWorker's current event, the wait
\* eventually ends and the worker is free for the items queued behind it.
BacktrackWaitEnds ==
    (workers.arw.stage = "await_tracker") ~> (workers.arw.current = 0)

\* AgentResponsesWorker waits for a tracker that is not set yet
BacktrackWaitsOnUnsetTracker ==
    /\ workers.arw.stage = "await_tracker"
    /\ trackers[workers.arw.waiting_on] = 0


\* TranscriptionsWorker has just processed a transcription
Processed == log'.received = log.received + 1

\* the BacktrackAudio events the step has created
NewBacktracks ==
    {id \in (Len(events) + 1)..Len(events') :
        events'[id].payload.type = "BacktrackAudio"}

\* C21: while processing a non-empty transcription t, TranscriptionsWorker
\* invokes the broker if and only if (is_bot_speaking or is_synthesizing or
\* not sent_initial_message) and is_interrupt(t); exactly then it enqueues one
\* BacktrackAudio request after the broker has returned, which is then all the
\* agent output queue holds; when the check runs and is_interrupt(t) is false
\* nothing is forwarded.
InterruptCheckDecidesBroker ==
    [][Processed /\ strip(log'.last.transcription.message) # <<>> =>
          LET t == log'.last.transcription
              check == should_check_interrupt(State)
              fire == check /\ is_interrupt(t, config)
          IN  /\ log'.last.fired = fire
              /\ Cardinality(NewBacktracks) = IF fire THEN 1 ELSE 0
              /\ fire => /\ Len(queues'.agent_output) = 1
                         /\ Head(queues'.agent_output) \in NewBacktracks
                         /\ queues'.synthesis_results = <<>>
                         /\ queues'.output_device = <<>>
              /\ check /\ ~fire => /\ queues' = queues
                                   /\ events' = events]_vars

\* an interim barge-in: the broker has run, the BacktrackAudio request waits
\* and nothing was forwarded to the agent
InterimBargeInRequestsBacktrack ==
    /\ log.last.fired
    /\ ~log.last.transcription.is_final
    /\ log.last.forwarded = 0
    /\ Len(queues.agent_output) = 1
    /\ events[Head(queues.agent_output)].payload.type = "BacktrackAudio"
    /\ log.broker.held.synthesis_results + log.broker.held.output_device > 0

HumanSpeakingFollowsEveryTranscription ==
    [][Processed /\ strip(log'.last.transcription.message) # <<>> =>
          flags'.is_human_speaking = ~log'.last.transcription.is_final]_vars


\* AgentResponsesWorker has just handled the item id, of the given type
Handled(id, type) ==
    /\ events[id].payload.type = type
    /\ ~events[id].done
    /\ events'[id].done
    /\ queues'.interruptible_events = queues.interruptible_events
    /\ workers'.lifecycle = "started"

awaited_tracker ==
    IF workers.arw.stage = "await_tracker" THEN workers.arw.waiting_on
    ELSE events[workers.srw.interruptible_event].tracker

\* backtrack audio starts only when a BacktrackAudio item is handled with
\* the tracker of the current turn set
BacktrackAudioAfterTracker ==
    /\ audio'.playing = "backtrack" /\ audio.playing # "backtrack" =>
          \E id \in DOMAIN events :
              Handled(id, "BacktrackAudio") /\ workers.srw.interruptible_event # 0
    /\ \A id \in DOMAIN events :
          Handled(id, "BacktrackAudio") /\ workers.srw.interruptible_event # 0 =>
              trackers[awaited_tracker] > 0

\* C25 as stated: no backtrack audio before the tracker of the current turn
\* is set, and once it is set backtrack audio starts if and only if
\* human_messages_in_transcript is above the minimum and bot_has_spoken.
BacktrackAudioIffSpokenEnough ==
    [][/\ BacktrackAudioAfterTracker
       /\ \A id \in DOMAIN events :
             Handled(id, "BacktrackAudio") /\ workers.srw.interruptible_event # 0 =>
                 IF /\ flags.human_messages_in_transcript
                          > min_human_messages_in_transcript
                    /\ flags.bot_has_spoken
                 THEN audio'.playing = "backtrack"
                 ELSE audio' = audio]_vars

\* C25: no backtrack audio before the tracker of the current turn is set,
\* and once it is set backtrack audio starts if and only if
\* human_messages_in_transcript is above the minimum, bot_has_spoken is true
\* and is_human_speaking is true.
BacktrackAudioIffSpokenEnoughAndSpeaking ==
    [][/\ BacktrackAudioAfterTracker
       /\ \A id \in DOMAIN events :
             Handled(id, "BacktrackAudio") /\ workers.srw.interruptible_event # 0 =>
                 IF /\ flags.human_messages_in_transcript
                          > min_human_messages_in_transcript
                    /\ flags.bot_has_spoken
                    /\ flags.is_human_speaking
                 THEN audio'.playing = "backtrack"
                 ELSE audio' = audio]_vars

\* backtrack audio plays after an interim barge-in
BacktrackAudioPlays ==
    /\ audio.playing = "backtrack"
    /\ flags.is_human_speaking
    /\ log.last.fired

\* C26: while AgentResponsesWorker synthesizes a Message is_synthesizing is
\* true, and when create_speech completes is_synthesizing becomes true if
\* and only if a further Message item waits in the worker's input queue.
SynthesizingFollowsInputQueue ==
    [][/\ workers'.arw.stage = "create_speech" => flags'.is_synthesizing
       /\ /\ workers.arw.stage = "create_speech"
          /\ Len(queues'.synthesis_results) = Len(queues.synthesis_results) + 1
          => flags'.is_synthesizing =
                 input_queue_has_agent_response_message(queues.agent_output, events)]_vars

\* create_speech has completed while a further Message item waits
SynthesizedWithMessageWaiting ==
    /\ workers.arw.current = 0
    /\ flags.is_synthesizing
    /\ queues.synthesis_results # <<>>
    /\ input_queue_has_agent_response_message(queues.agent_output, events)

\* send_speech_to_output has just returned inside SynthesisResultsWorker
Returned ==
    /\ workers.srw.stage = "emit"
    /\ workers'.srw.stage # "emit"
    /\ workers'.lifecycle = "started"

\* C27: when send_speech_to_output returns, is_interrupted becomes the
\* returned cut_off and is_bot_speaking becomes true exactly when the
\* worker's input queue is not empty and the turn was not cut off; during
\* the emission is_bot_speaking is true and is_interrupted is false.
SpeakingFlagsFollowEmission ==
    [][/\ Returned =>
             /\ flags'.is_interrupted = log'.sent.cut_off
             /\ flags'.is_bot_speaking =
                    (queues.synthesis_results # <<>> /\ ~log'.sent.cut_off)
       /\ workers'.srw.stage = "emit" =>
             /\ flags'.is_bot_speaking
             /\ ~flags'.is_interrupted]_vars

\* a turn has ended uncut with a further synthesis result waiting
TurnEndedWithResultWaiting ==
    /\ workers.srw.current = 0
    /\ log.sent.length > 0
    /\ ~log.sent.cut_off
    /\ queues.synthesis_results # <<>>
    /\ flags.is_bot_speaking

\* C28 as stated: after a bot turn bot_has_spoken is true if it was true, if
\* the turn was not cut off, or if at least 5 characters were sent, and false
\* otherwise.
BotHasSpokenFromFiveCharacters ==
    [][Returned =>
          flags'.bot_has_spoken =
              (\/ flags.bot_has_spoken
               \/ ~log'.sent.cut_off
               \/ log'.sent.length >= 5)]_vars

\* C28: after a bot turn bot_has_spoken is true if it was true, if the turn
\* was not cut off, or if more than 5 characters were sent, and false
\* otherwise.
BotHasSpokenAboveFiveCharacters ==
    [][Returned =>
          flags'.bot_has_spoken =
              (\/ flags.bot_has_spoken
               \/ ~log'.sent.cut_off
               \/ log'.sent.length > 5)]_vars

\* a turn was cut off with exactly 5 characters sent and the bot has not spoken
CutOffAtFiveCharacters ==
    /\ log.sent.cut_off
    /\ log.sent.length = 5
    /\ ~flags.bot_has_spoken
    /\ workers.srw.stage # "emit"

\* the FollowUpAudio events the step has created
NewFollowUps ==
    {id \in (Len(events) + 1)..Len(events') :
        events'[id].payload.type = "FollowUpAudio"}

\* C29: with goodbye detection on, SynthesisResultsWorker goes on to
\* terminate the conversation if and only if the detector answers true
\* within the deadline; on a false answer and on the expiry of the deadline
\* the conversation stays active, no error ends the item, the follow-up step
\* runs and the worker is free for its next item.
GoodbyeTerminatesOnlyOnTrue ==
    [][/\ /\ workers.srw.stage = "goodbye"
          /\ workers'.srw.stage # "goodbye"
          /\ workers'.lifecycle = "started"
          => IF log'.goodbye = "true"
             THEN workers'.srw.stage = "goodbye_sleep" /\ flags'.active = flags.active
             ELSE /\ workers'.srw.stage = "idle"
                  /\ workers'.srw.current = 0
                  /\ events'[workers.srw.current].done
                  /\ flags'.active = flags.active
                  /\ Cardinality(NewFollowUps) =
                         IF /\ flags.human_has_spoken
                            /\ ~flags.is_bot_speaking
                            /\ ~flags.is_synthesizing
                            /\ config.send_follow_up_audio
                         THEN 1 ELSE 0
       /\ /\ workers.srw.stage = "goodbye_sleep"
          /\ workers'.srw.stage # "goodbye_sleep"
          => /\ ~flags'.active
             /\ workers'.lifecycle = "terminated"]_vars

\* the deadline has expired, the conversation is active and the follow-up
\* request has been made
GoodbyeDeadlineExpiredAndFollowedUp ==
    /\ log.goodbye = "timeout"
    /\ flags.active
    /\ workers.srw.current = 0
    /\ \E id \in DOMAIN events :
          /\ events[id].payload.type = "FollowUpAudio"
          /\ \E i \in 1..Len(queues.agent_output) : queues.agent_output[i] = id

\* C30: with mute_during_speech configured, the transcriber is muted from
\* the entry of send_speech_to_output until the call ends, by the end of the
\* stream or by a cut-off, and is not muted once the call has ended.
MutedExactlyDuringSpeech ==
    speech.phase # "off" /\ speech.mute_during_speech =>
        (speech.muted <=> speech.phase \in {"next", "sleeping"})

\* a muting call has shipped a chunk and has ended by a cut-off
CutOffCallUnmuted ==
    /\ speech.phase \in {"returned", "done"}
    /\ speech.mute_during_speech
    /\ speech.cut_off
    /\ speech.device # <<>>
    /\ ~speech.muted


\* a step in which broadcast_interrupt has run: TranscriptionsWorker's check
\* has fired, or terminate was called
BrokerCalled ==
    \/ Processed /\ log'.last.fired
    \/ workers.lifecycle = "started" /\ workers'.lifecycle = "terminated"

\* the events the step has created are on the interruption registry
CreatedEventsRegistered ==
    \A id \in (Len(events) + 1)..Len(events') :
        \E i \in 1..Len(queues'.interruptible_events) :
            queues'.interruptible_events[i] = id

\* the broker has left on the registry only what was created after it ran
RegistryDrained ==
    \A i \in 1..Len(queues'.interruptible_events) :
        queues'.interruptible_events[i] > Len(events)

\* no event on the registry is interrupted: an event a broker invocation has
\* counted is seen by no later one
CountedOnce ==
    \A i \in 1..Len(queues.interruptible_events) :
        ~events[queues.interruptible_events[i]].interrupted

\* C32 as stated: every event the factory creates is placed on the registry;
\* broadcast_interrupt returns true if and only if an event on the registry
\* at the call was interruptible and not yet interrupted, it leaves the
\* registry empty, and no event is counted by more than one invocation.
BrokerCountsInterruptibleEvents ==
    [][/\ CreatedEventsRegistered
       /\ CountedOnce
       /\ BrokerCalled =>
             /\ RegistryDrained
             /\ log'.broker.ret <=>
                    \E i \in 1..Len(queues.interruptible_events) :
                        LET e == events[queues.interruptible_events[i]]
                        IN  e.is_interruptible /\ ~e.interrupted]_vars

\* C32: every event the factory creates is placed on the registry;
\* broadcast_interrupt returns true if and only if an event on the registry
\* at the call was interruptible, not yet interrupted and not yet done, it
\* leaves the registry empty, and no event is counted by more than one
\* invocation.
BrokerCountsInterruptibleUndoneEvents ==
    [][/\ CreatedEventsRegistered
       /\ CountedOnce
       /\ BrokerCalled =>
             /\ RegistryDrained
             /\ log'.broker.ret <=>
                    \E i \in 1..Len(queues.interruptible_events) :
                        LET e == events[queues.interruptible_events[i]]
                        IN  e.is_interruptible /\ ~e.interrupted /\ ~e.done]_vars

\* the broker has returned false although a finished interruptible event was
\* among the events made before the call, and the registry holds only what
\* was made after it
BrokerPassedOverFinishedEvent ==
    /\ log.last.fired
    /\ ~log.broker.ret
    /\ \A i \in 1..Len(queues.interruptible_events) :
          queues.interruptible_events[i] > log.broker.mark
    /\ \E id \in 1..log.broker.mark :
          events[id].is_interruptible /\ events[id].done /\ ~events[id].interrupted

\* C33: broadcast_interrupt sets is_synthesizing to false and leaves every
\* other conversation flag as it was.
BrokerWritesOnlyIsSynthesizing ==
    broadcast_interrupt(State).flags = [flags EXCEPT !.is_synthesizing = FALSE]

\* the broker has run on a barge-in while the bot was speaking, and
\* is_bot_speaking is still true
BrokerLeftBotSpeaking ==
    /\ log.last.fired
    /\ log.broker.ret
    /\ flags.is_bot_speaking
    /\ ~flags.is_synthesizing

\* C35: active is false until start has passed the transcriber-ready check,
\* true from then until terminate is called, and false ever after, however
\* start and terminate interleave.
ActiveFromReadyUntilTerminate ==
    lifecycle.start # "off" =>
        (lifecycle.active <=>
            /\ lifecycle.start = "done"
            /\ \A k \in 1..MaxCalls : lifecycle.calls[k].pc = "none")

\* C36: when the idle watchdog calls terminate and the collaborators tear
\* down without failure, a TranscriptCompleteEvent is published and every
\* worker is stopped.
WatchdogTerminateStopsWorkers ==
    lifecycle.start # "off" /\ lifecycle.failing = "none" =>
        \A k \in 1..MaxCalls :
            lifecycle.calls[k].caller = "check_for_idle"
                /\ lifecycle.calls[k].pc \in Ended =>
                    /\ lifecycle.published >= 1
                    /\ teardown_steps(lifecycle.config) \subseteq lifecycle.calls[k].steps

\* C37: in a running conversation with an initial message configured, once
\* the initial-message task is over sent_initial_message is true: no later
\* step sets it.
InitialMessageTaskSetsSentInitialMessage ==
    /\ config.initial_message
    /\ workers.lifecycle = "started"
    /\ workers.initial_message_task.state = "done"
    => flags.sent_initial_message

\* C39: the seconds_spoken send_speech_to_output returns is seconds_per_chunk
\* times the number of chunks it has shipped to the output device.
SecondsSpokenCountsShippedChunks ==
    speech.phase \in {"returned", "done"} =>
        speech.seconds_spoken = seconds_per_chunk * Len(speech.device)

\* the call has returned after a stop event that let the sentence finish
FinishedSentenceAfterStop ==
    /\ speech.phase = "returned"
    /\ speech.stopped.seen
    /\ speech.stopped.finish
    /\ Len(speech.device) = MaxSpeechChunks

\* C40: follow-up audio is not handed to the RandomAudioManager while
\* SynthesisResultsWorker emits a turn.
NoFollowUpAudioDuringEmission ==
    [][audio'.playing = "follow_up" /\ audio # audio' =>
          ~(workers.srw.stage = "emit" /\ flags.is_bot_speaking)]_vars

\* C38: whenever AgentResponsesWorker has no item in flight and its input
\* queue holds no Message item, is_synthesizing is false.
IdleWorkerIsNotSynthesizing ==
    /\ workers.lifecycle = "started"
    /\ workers.arw.current = 0
    /\ ~input_queue_has_agent_response_message(queues.agent_output, events)
    => ~flags.is_synthesizing

\* C34: the Deepgram run loop reconnects after a dropped connection
\* NUM_RESTARTS times before it gives up, it never makes more attempts than
\* that, and it makes no attempt once the transcriber is ended.
DeepgramReconnectsUntilNumRestarts ==
    deepgram.run # "off" =>
        /\ deepgram.late_attempts = 0
        /\ deepgram.attempts <= 1 + NUM_RESTARTS
        /\ (deepgram.run \in {"stopped", "raised"} /\ ~deepgram.ended)
              => deepgram.attempts = 1 + NUM_RESTARTS

\* a chunk of the turn in hand goes to the output device
ChunkShipped ==
    /\ workers.srw.current # 0
    /\ Len(queues'.output_device) > Len(queues.output_device)

\* the instant call_start_time + initial_message_delay_seconds
InitialMessageDue == clock.call_start_time + config.initial_message_delay_seconds

\* C31: when SynthesisResultsWorker begins a turn with sent_initial_message
\* false, the human silent so far and a delay configured, no chunk of that
\* turn goes to the output device before call_start_time +
\* initial_message_delay_seconds; and a turn begun at or after that instant
\* goes straight to its emission.
InitialMessageWaitsForItsDelay ==
    [][/\ (log.initial_turn /\ ChunkShipped) => clock.now >= InitialMessageDue
       /\ (/\ workers.srw.current = 0
           /\ workers'.srw.current # 0
           /\ log'.initial_turn
           /\ clock'.now >= clock'.call_start_time
                               + config.initial_message_delay_seconds)
              => workers'.srw.stage = "emit"]_vars

\* a chunk of the initial message is out after SynthesisResultsWorker has
\* slept to the end of the delay
InitialMessageShippedAfterSleep ==
    /\ log.initial_turn
    /\ workers.srw.current # 0
    /\ workers.srw.chunk_idx > 0
    /\ queues.output_device # <<>>
    /\ workers.srw.wake > 0
    /\ clock.now = InitialMessageDue

====
